---- MODULE Spec2Model ----
(***************************************************************************)
(* The CI/CD remediation workflow of cicd_agent: the LangGraph state graph *)
(* built by build_cicd_graph, the node functions it wires together, and    *)
(* the command-line entry point.  The workflow state dictionary (CICDState)*)
(* is the variable set; each graph node is one action.                     *)
(***************************************************************************)
EXTENDS Integers, Sequences, FiniteSets, TLC

\* ------------------------------------------------------------------ bounds
\* Largest number of files under the scanned roots, over the three
\* categories, in a tree that has two files of one category.
MaxFiles == 2
\* The same two bounds for the runs with every kind of argument list and
\* for the pairs of runs with and without --dry-run.
MaxLiveFiles == 1
MaxLiveFixAttempts == 1
\* Largest value of the --max-fix-attempts argument explored.
MaxFixAttempts == 2
\* Deepest directory nesting the chart-root walk is run on.
MaxWalkDepth == 4
\* Largest number of files on the disks discovery is run on.
MaxDiskFiles == 2
\* Longest Dockerfile, in lines, and the number of times it is rewritten.
MaxDockerLines == 4
MaxRewrites == 2
\* Loop iterations of the walk are told apart modulo this number.
WalkTicks == 2
\* Longest .tf file and longest Chart.yaml, in pieces of text, a fixer is
\* run on.
MaxTfPieces == 3
MaxChartPieces == 3

\* ------------------------------------------------------- program constants
\* argparse default of --max-fix-attempts / default of run_cicd_agent.
DefaultMaxFixAttempts == 3

Categories == {"terraform", "docker", "helm"}
\* The fixed iteration order of decide_next_action and run_cicd_agent.
CategoryOrder == <<"terraform", "docker", "helm">>

\* Python's None, for the integer-valued fields (last_fix_time, the exit
\* code of a process still running) and for error_message.
None == -1
NoMessage == <<>>

\* --------------------------------------------------------------- file paths
\* A path is the sequence of its components ("infra/main.tf" is
\* <<"infra", "main.tf">>); the empty sequence is the empty string.  An
\* absolute path starts with the component "/": "/srv/values.yaml" is
\* <<"/", "srv", "values.yaml">> and "/" is <<"/">>.
Root == <<"/">>

\* os.path.dirname; os.path.dirname("/") is "/".
Dirname(p) ==
    IF Len(p) = 0 THEN <<>>
    ELSE IF p = Root THEN Root
    ELSE SubSeq(p, 1, Len(p) - 1)
\* os.path.basename; os.path.basename("/") is "".
Basename(p) == IF Len(p) = 0 \/ p = Root THEN <<>> ELSE <<p[Len(p)]>>

\* The files that exist under the scanned roots, per category, in os.walk
\* order.  Directory "chart" holds a Chart.yaml, directory "loose" does not.
TreeFiles ==
    [terraform |-> << <<"infra", "main.tf">>, <<"net", "main.tf">> >>,
     docker    |-> << <<"app", "Dockerfile">>, <<"Web", "Dockerfile">> >>,
     helm      |-> << <<"chart", "Chart.yaml">>, <<"loose", "values.yaml">> >>]

\* os.path.exists(os.path.join(d, "Chart.yaml")): the directories named
\* "chart" hold a Chart.yaml.
HasChartYaml(d) == Len(d) > 0 /\ d[Len(d)] = "chart"

\* All subsequences of s (order kept) of length at most n.
RECURSIVE SubSeqsUpTo(_, _)
SubSeqsUpTo(s, n) ==
    IF Len(s) = 0 \/ n = 0 THEN {<<>>}
    ELSE SubSeqsUpTo(Tail(s), n)
         \cup {<<Head(s)>> \o t : t \in SubSeqsUpTo(Tail(s), n - 1)}

\* All enumeration orders of a finite set (iteration order of a Python set).
RECURSIVE Orders(_)
Orders(S) ==
    IF S = {} THEN {<<>>}
    ELSE UNION {{<<x>> \o t : t \in Orders(S \ {x})} : x \in S}

Range(s) == {s[i] : i \in 1..Len(s)}

\* dict assignment d[k] = v on a dict whose key set may grow
Put(d, k, v) == [x \in (DOMAIN d) \cup {k} |-> IF x = k THEN v ELSE d[x]]
EmptyDict == [x \in {} |-> None]

VARIABLES
    tree,                     \* the files under user_paths, per category
    set_order,                \* iteration order of the directory sets
    node,                     \* the graph node that runs next
    pending,                  \* validators scheduled in the current superstep
    last,                     \* the node that ran last
    validated,                \* validators run since validation was (re)entered
    now,                      \* logical clock behind datetime.now()
    file_writes,              \* file write operations per category
    exit_code,                \* process exit code, None while running
    files, validation_results, all_validations_complete,
    collected_errors, errors_by_file, fix_attempts, files_fixed,
    fix_applied, release_ready, release_results, docker_images_built,
    helm_charts_released, terraform_applied, status, error_message,
    fix_rounds,               \* times the fix edge was taken
    ever_failed,              \* categories whose validator has reported a failure
    terraform_calls,          \* terraform commands run by release_terraform
    unvalidated,              \* categories rewritten since their validator last ran
    chart_walk,               \* the chart-root walk for one helm file
    args,                     \* the command-line arguments of the run
    disk,                     \* the files under user_paths, in os.walk order
    file_text,                \* the content of one file a fixer rewrites
    twin                      \* the run of the same command line without --dry-run

\* The fields of CICDState.
state == <<files, validation_results, all_validations_complete,
           collected_errors, errors_by_file, fix_attempts, files_fixed,
           fix_applied, release_ready, release_results, docker_images_built,
           helm_charts_released, terraform_applied, status, error_message>>

environment == <<tree, set_order, disk, args, twin>>

\* What the run has done so far, kept beside the workflow state.
history == <<fix_rounds, ever_failed, terraform_calls, unvalidated>>

vars == <<tree, set_order, node, pending, last, validated, now, file_writes, exit_code,
          files, validation_results, all_validations_complete,
          collected_errors, errors_by_file, fix_attempts, files_fixed,
          fix_applied, release_ready, release_results, docker_images_built,
          helm_charts_released, terraform_applied, status, error_message,
          fix_rounds, ever_failed, terraform_calls, unvalidated, chart_walk,
          args, disk, file_text, twin>>

\* ------------------------------------------------------------ construction
\* run_cicd_agent: create_initial_state, then seed fix_attempts for the
\* three categories with the given budget.
SeedFixAttemptsIgnoresOverride(max_fix_attempts) ==
    [ft \in Categories |->
        [file_type |-> ft, attempts |-> 0,
         max_attempts |-> DefaultMaxFixAttempts, last_fix_time |-> None]]

SeedFixAttempts(max_fix_attempts) ==
    [ft \in Categories |->
        [file_type |-> ft, attempts |-> 0,
         max_attempts |-> max_fix_attempts, last_fix_time |-> None]]

\* tf_dirs = set(os.path.dirname(f) for f in files)
TerraformDirs(fs) == {Dirname(fs[i]) : i \in 1..Len(fs)}

\* The upward walk from d never leaves its while loop: it reaches "/", whose
\* dirname is "/" again, without meeting a Chart.yaml.
RECURSIVE WalkDiverges(_)
WalkDiverges(d) ==
    IF Len(d) = 0 \/ HasChartYaml(d) THEN FALSE
    ELSE IF d = Root THEN TRUE
    ELSE WalkDiverges(Dirname(d))

\* The walk of every file of fs leaves its loop.
ChartWalksEnd(fs) == \A i \in 1..Len(fs) : ~WalkDiverges(Dirname(fs[i]))

\* The upward walk to the nearest directory holding a Chart.yaml, for a
\* walk that leaves its loop.
RECURSIVE ChartRoot(_)
ChartRoot(d) ==
    IF Len(d) = 0 THEN <<>>
    ELSE IF HasChartYaml(d) THEN d
    ELSE ChartRoot(Dirname(d))

\* chart_dirs once the for loop is over; a file whose walk does not end
\* keeps the loop from getting there and adds nothing.
ChartDirs(fs) ==
    {ChartRoot(Dirname(fs[i])) :
        i \in {j \in 1..Len(fs) : ~WalkDiverges(Dirname(fs[j]))}} \ {<<>>}

\* Iteration over a set of directories: the process-wide order, restricted.
RECURSIVE Restrict(_, _)
Restrict(order, S) ==
    IF Len(order) = 0 THEN <<>>
    ELSE (IF Head(order) \in S THEN <<Head(order)>> ELSE <<>>)
         \o Restrict(Tail(order), S)

\* ---------------------------------------------------------------- discovery
\* file_path.endswith(('.tf', '.tfvars')), on the file names of the disks
is_terraform_file(p) == p[Len(p)] \in {"main.tf", "prod.tfvars", "Dockerfile.tf"}

\* basename.lower().startswith('dockerfile') or 'docker-compose' in basename
is_docker_file(p) ==
    p[Len(p)] \in {"Dockerfile", "Dockerfile.tf", "docker-compose.yml"}

\* basename.lower() in helm_files or '/templates/' in file_path.lower()
is_helm_file(p) ==
    \/ p[Len(p)] \in {"Chart.yaml", "values.yaml", "requirements.yaml"}
    \/ \E i \in 2..(Len(p) - 1) : p[i] = "templates"

\* d.startswith('.') or d == 'node_modules', on the directory names of the disks
IsExcludedDir(d) == d \in {".", ".git", ".hidden", "node_modules"}

\* The walk does not descend into an excluded directory below a scanned
\* root; the root itself (the first component) is not filtered.
Pruned(p) == \E i \in 2..(Len(p) - 1) : IsExcludedDir(p[i])

ClassifyDockerFirst(p) ==
    IF is_docker_file(p) THEN "docker"
    ELSE IF is_terraform_file(p) THEN "terraform"
    ELSE IF is_helm_file(p) THEN "helm"
    ELSE "none"

\* The if/elif chain of discover_files.
Classify(p) ==
    IF is_terraform_file(p) THEN "terraform"
    ELSE IF is_docker_file(p) THEN "docker"
    ELSE IF is_helm_file(p) THEN "helm"
    ELSE "none"

\* The files of one category, in walk order.
RECURSIVE DiscoveredOf(_, _)
DiscoveredOf(c, fs) ==
    IF Len(fs) = 0 THEN <<>>
    ELSE (IF ~Pruned(Head(fs)) /\ Classify(Head(fs)) = c
          THEN <<Head(fs)>> ELSE <<>>)
         \o DiscoveredOf(c, Tail(fs))

\* discovered = {"terraform": [...], "docker": [...], "helm": [...]}
Discover(fs) == [c \in Categories |-> DiscoveredOf(c, fs)]

\* The directory trees discovery can meet: every tree with at most one
\* file per category, and every tree with at most n of the known files.
Trees(n) ==
    {t \in {[terraform |-> tf, docker |-> dk, helm |-> hm] :
                tf \in SubSeqsUpTo(TreeFiles.terraform, n),
                dk \in SubSeqsUpTo(TreeFiles.docker, n),
                hm \in SubSeqsUpTo(TreeFiles.helm, n)} :
        \/ Len(t.terraform) + Len(t.docker) + Len(t.helm) <= n
        \/ \A c \in Categories : Len(t[c]) <= 1}

\* fix_rounds stops counting at one round more than any budget allows.
FixRoundsCap == MaxFixAttempts + 1

\* The command line is run once.
NoTwin == [phase |-> "off"]

\* Nothing has run yet.
HistoryInit ==
    /\ fix_rounds = 0
    /\ ever_failed = {}
    /\ terraform_calls = <<>>
    /\ unvalidated = {}
    /\ twin = NoTwin

\* No file content is being rewritten.
NoText == [original |-> <<>>, lines |-> <<>>, applied |-> 0]

\* The files of a tree as os.walk reports them.
DiskOf(t) == t.terraform \o t.docker \o t.helm

\* max_fix_attempts: int = 3 / argparse default=3.  The argument is the
\* sequence of the values given for it: empty when it was left out.
NotGiven == <<>>
Given(n) == <<n>>

EffectiveMaxFixAttempts(given) ==
    IF given = NotGiven THEN DefaultMaxFixAttempts ELSE given[1]

\* No chart-root walk is in progress.
NoWalk == [path |-> <<>>, chart_dir |-> <<>>, pc |-> "idle", tick |-> 0]

\* main and run_cicd_agent on the files of one disk with one argument list.
StartWith(disks, arguments) ==
    /\ disk \in disks
    /\ args \in arguments
    /\ tree = Discover(disk)
    /\ set_order \in [terraform : Orders(TerraformDirs(tree.terraform)),
                       helm : Orders(ChartDirs(tree.helm))]
    /\ node = "discover"
    /\ pending = {}
    /\ last = "START"
    /\ validated = {}
    /\ now = 0
    /\ file_writes = [c \in Categories |-> 0]
    /\ exit_code = None
    /\ files = [c \in Categories |-> <<>>]
    /\ validation_results = EmptyDict
    /\ all_validations_complete = FALSE
    /\ collected_errors = EmptyDict
    /\ errors_by_file = EmptyDict
    /\ fix_attempts = SeedFixAttempts(EffectiveMaxFixAttempts(args.max_fix_attempts))
    /\ files_fixed = <<>>
    /\ fix_applied = FALSE
    /\ release_ready = FALSE
    /\ release_results = EmptyDict
    /\ docker_images_built = <<>>
    /\ helm_charts_released = <<>>
    /\ terraform_applied = FALSE
    /\ status = "running"
    /\ error_message = NoMessage
    /\ HistoryInit
    /\ chart_walk = NoWalk
    /\ file_text = NoText

\* Runs without --dry-run on the trees of Trees(max_files), with every
\* explicit --max-fix-attempts up to max_budget.
InitWith(max_files, max_budget) ==
    StartWith({DiskOf(t) : t \in Trees(max_files)},
              [max_fix_attempts : {Given(n) : n \in 0..max_budget}, dry_run : {FALSE}])

Init == InitWith(MaxFiles, MaxFixAttempts)

\* A values.yaml given by an absolute path, with no Chart.yaml in any
\* directory above it.
RootedHelmFile == <<"/", "srv", "values.yaml">>

\* The runs of Init, and the same runs with RootedHelmFile on the disk too.
LiveInit ==
    StartWith({DiskOf(t) \o extra : t \in Trees(MaxFiles),
                                     extra \in {<<>>, <<RootedHelmFile>>}},
              [max_fix_attempts : {Given(n) : n \in 0..MaxFixAttempts},
               dry_run : {FALSE}])

\* ---------------------------------------------------------------- discovery
\* discover_files: the walk classifies the files of the tree.
discover_files ==
    /\ node = "discover"
    /\ files' = Discover(disk)
    /\ node' = "validate"
    /\ pending' = Categories
    /\ validated' = {}
    /\ last' = "discover"
    /\ UNCHANGED <<environment, history, chart_walk, file_text, now, file_writes, exit_code, validation_results,
                   all_validations_complete, collected_errors, errors_by_file,
                   fix_attempts, files_fixed, fix_applied, release_ready,
                   release_results, docker_images_built, helm_charts_released,
                   terraform_applied, status, error_message>>

\* --------------------------------------------------------------- validators
TerraformTools == <<"terraform_validate", "tflint", "checkov">>
DockerTools == <<"hadolint", "docker_build">>
HelmTools == <<"helm_lint", "helm_template">>

\* One ValidationResult; a failed tool run carries the single error string
\* "stderr or stdout".
ValidationResult(file_path, tool, passed) ==
    [file_path |-> file_path, tool |-> tool, passed |-> passed,
     errors |-> IF passed THEN <<>> ELSE <<"stderr">>]

\* The results appended for one unit (directory, file or chart), one per tool.
UnitResults(unit, tools, out) ==
    [i \in 1..Len(tools) |-> ValidationResult(unit, tools[i], out[tools[i]])]

\* The result list of a validator that visits units in the given order;
\* out[u][tool] is the outcome of run_command for that tool on unit u.
RECURSIVE RunTools(_, _, _)
RunTools(units, tools, out) ==
    IF Len(units) = 0 THEN <<>>
    ELSE UnitResults(Head(units), tools, out[Head(units)])
         \o RunTools(Tail(units), tools, out)

Outcomes(units, tools) == [units -> [Range(tools) -> BOOLEAN]]

\* for tf_dir in tf_dirs / for chart_dir in chart_dirs
TerraformDirOrder == Restrict(set_order.terraform, TerraformDirs(files["terraform"]))
ChartDirOrder == Restrict(set_order.helm, ChartDirs(files["helm"]))

\* Units a validator runs its tools on, in visit order.
ValidationUnits(c) ==
    IF c = "terraform" THEN TerraformDirOrder
    ELSE IF c = "docker" THEN files[c]
    ELSE ChartDirOrder

ToolsOf(c) ==
    IF c = "terraform" THEN TerraformTools
    ELSE IF c = "docker" THEN DockerTools
    ELSE HelmTools

ValidatorNode(c) ==
    IF c = "terraform" THEN "validate_terraform"
    ELSE IF c = "docker" THEN "validate_docker"
    ELSE "validate_helm"

WriteResultsDropsOthers(vr, c, results) == [x \in {c} |-> results]

WriteResultsAppends(vr, c, results) ==
    Put(vr, c, (IF c \in DOMAIN vr THEN vr[c] ELSE <<>>) \o results)

\* state["validation_results"][c] = results
WriteResults(vr, c, results) == Put(vr, c, results)

AfterValidatorSkipsCollect(remaining) ==
    IF remaining = {} THEN "decide" ELSE "validate"

\* The edges validate_* -> collect_errors: collect_errors runs once every
\* validator scheduled in the superstep has returned.
AfterValidator(remaining) ==
    IF remaining = {} THEN "collect_errors" ELSE "validate"

\* validate_terraform / validate_docker / validate_helm: overwrite the
\* category's entry of validation_results.  An empty file list records [].
\* validate_helm returns only when the chart walk of each of its files ends.
Validate(c) ==
    /\ node = "validate"
    /\ c \in pending
    /\ c = "helm" => ChartWalksEnd(files[c])
    /\ IF Len(files[c]) = 0
       THEN validation_results' = WriteResults(validation_results, c, <<>>)
       ELSE \E out \in Outcomes(Range(ValidationUnits(c)), ToolsOf(c)) :
                validation_results' =
                    WriteResults(validation_results, c,
                                 RunTools(ValidationUnits(c), ToolsOf(c), out))
    /\ ever_failed' = IF \E i \in 1..Len(validation_results'[c]) :
                              ~validation_results'[c][i].passed
                       THEN ever_failed \cup {c}
                       ELSE ever_failed
    /\ unvalidated' = unvalidated \ {c}
    /\ pending' = pending \ {c}
    /\ validated' = validated \cup {c}
    /\ node' = AfterValidator(pending')
    /\ last' = ValidatorNode(c)
    /\ UNCHANGED <<environment, fix_rounds, terraform_calls, chart_walk, file_text, now, file_writes, exit_code, files,
                   all_validations_complete, collected_errors, errors_by_file,
                   fix_attempts, files_fixed, fix_applied, release_ready,
                   release_results, docker_images_built, helm_charts_released,
                   terraform_applied, status, error_message>>

validate_terraform == Validate("terraform")
validate_docker == Validate("docker")
validate_helm == Validate("helm")

\* --------------------------------------------------------------- aggregator
\* The formatted line "[tool] file_path: errors".
ErrorMsg(r) == [tool |-> r.tool, file_path |-> r.file_path, text |-> r.errors]

RECURSIVE FailedMsgsFirstOnly(_)
FailedMsgsFirstOnly(results) ==
    IF Len(results) = 0 THEN <<>>
    ELSE IF Head(results).passed THEN FailedMsgsFirstOnly(Tail(results))
    ELSE <<ErrorMsg(Head(results))>>

\* The error lines of one category: one per result with passed = False.
RECURSIVE FailedMsgs(_)
FailedMsgs(results) ==
    IF Len(results) = 0 THEN <<>>
    ELSE (IF Head(results).passed THEN <<>> ELSE <<ErrorMsg(Head(results))>>)
         \o FailedMsgs(Tail(results))

Collected(vr) ==
    [c \in Categories |-> IF c \in DOMAIN vr THEN FailedMsgs(vr[c]) ELSE <<>>]

\* errors_by_file after the results of one category, in list order.
RECURSIVE ExtendByFile(_, _)
ExtendByFile(ebf, results) ==
    IF Len(results) = 0 THEN ebf
    ELSE LET r == Head(results)
             old == IF r.file_path \in DOMAIN ebf THEN ebf[r.file_path] ELSE <<>>
         IN  ExtendByFile(IF r.passed THEN ebf
                          ELSE Put(ebf, r.file_path, old \o r.errors),
                          Tail(results))

RECURSIVE ErrorsByFile(_, _, _)
ErrorsByFile(ebf, vr, cats) ==
    IF Len(cats) = 0 THEN ebf
    ELSE ErrorsByFile(IF Head(cats) \in DOMAIN vr
                      THEN ExtendByFile(ebf, vr[Head(cats)]) ELSE ebf,
                      vr, Tail(cats))

StaleErrorsByFile == errors_by_file

\* errors_by_file = {}: the local dict collect_errors starts from.
FreshErrorsByFile == EmptyDict

\* The writes collect_errors makes to the state it is given.
CollectEffects ==
    /\ collected_errors' = Collected(validation_results)
    /\ errors_by_file' = ErrorsByFile(FreshErrorsByFile, validation_results,
                                      CategoryOrder)
    /\ all_validations_complete' = TRUE

collect_errors ==
    /\ node = "collect_errors"
    /\ CollectEffects
    /\ node' = "decide"
    /\ last' = "collect_errors"
    /\ UNCHANGED <<environment, history, chart_walk, file_text, pending, validated, now, file_writes, exit_code, files,
                   validation_results, fix_attempts, files_fixed, fix_applied,
                   release_ready, release_results, docker_images_built,
                   helm_charts_released, terraform_applied, status,
                   error_message>>

\* collect_errors called a second time on the state it has just returned.
collect_errors_again ==
    /\ node = "decide"
    /\ last = "collect_errors"
    /\ CollectEffects
    /\ last' = "collect_errors_again"
    /\ UNCHANGED <<environment, history, chart_walk, file_text, node, pending, validated, now,
                   file_writes, exit_code, files, validation_results,
                   fix_attempts, files_fixed, fix_applied, release_ready,
                   release_results, docker_images_built, helm_charts_released,
                   terraform_applied, status, error_message>>

\* ---------------------------------------------------------- decision engine
RECURSIVE SumLens(_, _)
SumLens(ce, keys) ==
    IF keys = {} THEN 0
    ELSE LET k == CHOOSE x \in keys : TRUE
         IN  Len(ce[k]) + SumLens(ce, keys \ {k})

\* total_errors = sum(len(errs) for errs in collected_errors.values())
total_errors(ce) == SumLens(ce, DOMAIN ce)

\* state["collected_errors"].get(file_type, [])
ErrorsOf(ce, c) == IF c \in DOMAIN ce THEN ce[c] ELSE <<>>
\* state["fix_attempts"].get(file_type, {}).get("attempts", 0)
AttemptsOf(fa, c) == IF c \in DOMAIN fa THEN fa[c].attempts ELSE 0
\* state["fix_attempts"].get(file_type, {}).get("max_attempts", 3)
MaxAttemptsOf(fa, c) ==
    IF c \in DOMAIN fa THEN fa[c].max_attempts ELSE DefaultMaxFixAttempts

UnderBudgetOffByOne(attempts, max_attempts) == attempts + 1 < max_attempts

\* The budget test of the decision loop.
UnderBudget(attempts, max_attempts) == attempts < max_attempts

\* needs_fix: some category with errors is still under budget.
needs_fix(ce, fa) ==
    \E c \in Categories :
        /\ Len(ErrorsOf(ce, c)) > 0
        /\ UnderBudget(AttemptsOf(fa, c), MaxAttemptsOf(fa, c))

decide_next_action_budget_first(ce, fa) ==
    IF \A c \in Categories : AttemptsOf(fa, c) >= MaxAttemptsOf(fa, c) THEN "fail"
    ELSE IF total_errors(ce) = 0 THEN "release"
    ELSE IF needs_fix(ce, fa) THEN "fix"
    ELSE "fail"

decide_next_action_never_fail(ce, fa) ==
    IF total_errors(ce) = 0 THEN "release" ELSE "fix"

\* The label decide_next_action returns.
decide_next_action(ce, fa) ==
    IF total_errors(ce) = 0 THEN "release"
    ELSE IF needs_fix(ce, fa) THEN "fix"
    ELSE "fail"

\* f"Max fix attempts reached. Errors remain: {total_errors}"
FailureMessage(total) == <<"Max fix attempts reached. Errors remain: ", total>>

DecideEffectsMessageOnFix ==
    LET label == decide_next_action(collected_errors, fix_attempts) IN
    /\ release_ready' = IF label = "release" THEN TRUE ELSE release_ready
    /\ status' = IF label = "fix" THEN "fixing"
                 ELSE IF label = "fail" THEN "failed"
                 ELSE status
    /\ error_message' = IF label = "release" THEN error_message
                        ELSE FailureMessage(total_errors(collected_errors))

DecideEffectsAppendsMessage ==
    LET label == decide_next_action(collected_errors, fix_attempts) IN
    /\ release_ready' = IF label = "release" THEN TRUE ELSE release_ready
    /\ status' = IF label = "fix" THEN "fixing"
                 ELSE IF label = "fail" THEN "failed"
                 ELSE status
    /\ error_message' = IF label = "fail"
                        THEN error_message
                             \o FailureMessage(total_errors(collected_errors))
                        ELSE error_message

DecideEffectsResetsStatus ==
    LET label == decide_next_action(collected_errors, fix_attempts) IN
    /\ release_ready' = IF label = "release" THEN TRUE ELSE release_ready
    /\ status' = IF label = "fix" THEN "fixing"
                 ELSE IF label = "fail" THEN "failed"
                 ELSE "running"
    /\ error_message' = IF label = "fail"
                        THEN FailureMessage(total_errors(collected_errors))
                        ELSE error_message

\* The writes decide_next_action makes to the state it is given.
DecideEffects ==
    LET label == decide_next_action(collected_errors, fix_attempts) IN
    /\ release_ready' = IF label = "release" THEN TRUE ELSE release_ready
    /\ status' = IF label = "fix" THEN "fixing"
                 ELSE IF label = "fail" THEN "failed"
                 ELSE status
    /\ error_message' = IF label = "fail"
                        THEN FailureMessage(total_errors(collected_errors))
                        ELSE error_message

RouteTargetFailReleases(label) ==
    IF label = "fix" THEN "fix_terraform" ELSE "prepare_release"

RouteTargetDryRunSkips(label) ==
    IF label = "release" THEN (IF args.dry_run THEN "END" ELSE "prepare_release")
    ELSE IF label = "fix" THEN "fix_terraform"
    ELSE "fail"

\* The conditional-edge map of build_cicd_graph.
RouteTarget(label) ==
    IF label = "release" THEN "prepare_release"
    ELSE IF label = "fix" THEN "fix_terraform"
    ELSE "fail"

\* decide_next_action run as the node "decide".
decide ==
    /\ node = "decide"
    /\ DecideEffects
    /\ node' = "route"
    /\ last' = "decide"
    /\ UNCHANGED <<environment, history, chart_walk, file_text, pending, validated, now, file_writes, exit_code, files,
                   validation_results, all_validations_complete,
                   collected_errors, errors_by_file, fix_attempts, files_fixed,
                   fix_applied, release_results, docker_images_built,
                   helm_charts_released, terraform_applied>>

\* decide_next_action run again as the router of the conditional edges.
Route ==
    /\ node = "route"
    /\ DecideEffects
    /\ node' = RouteTarget(decide_next_action(collected_errors, fix_attempts))
    /\ fix_rounds' = IF node' = "fix_terraform" /\ fix_rounds < FixRoundsCap
                     THEN fix_rounds + 1 ELSE fix_rounds
    /\ UNCHANGED <<environment, ever_failed, terraform_calls, unvalidated, chart_walk, file_text, pending, last, validated, now, file_writes, exit_code, files,
                   validation_results, all_validations_complete,
                   collected_errors, errors_by_file, fix_attempts, files_fixed,
                   fix_applied, release_results, docker_images_built,
                   helm_charts_released, terraform_applied>>

\* prepare_release
prepare_release ==
    /\ node = "prepare_release"
    /\ release_ready' = TRUE
    /\ status' = "releasing"
    /\ node' = "release_docker"
    /\ last' = "prepare_release"
    /\ UNCHANGED <<environment, history, chart_walk, file_text, pending, validated, now, file_writes, exit_code, files,
                   validation_results, all_validations_complete,
                   collected_errors, errors_by_file, fix_attempts, files_fixed,
                   fix_applied, release_results, docker_images_built,
                   helm_charts_released, terraform_applied, error_message>>

\* fail_workflow, followed by the edge fail -> END
fail_workflow ==
    /\ node = "fail"
    /\ status' = "failed"
    /\ node' = "END"
    /\ last' = "fail"
    /\ UNCHANGED <<environment, history, chart_walk, file_text, pending, validated, now, file_writes, exit_code, files,
                   validation_results, all_validations_complete,
                   collected_errors, errors_by_file, fix_attempts, files_fixed,
                   fix_applied, release_ready, release_results,
                   docker_images_built, helm_charts_released,
                   terraform_applied, error_message>>

\* ------------------------------------------------------------------- fixers
DefaultFixAttempt(c) ==
    [file_type |-> c, attempts |-> 0,
     max_attempts |-> DefaultMaxFixAttempts, last_fix_time |-> None]

\* get_or_create_fix_attempt: the fix_attempts dict after the call.
get_or_create_fix_attempt(fa, c) ==
    IF c \in DOMAIN fa THEN fa ELSE Put(fa, c, DefaultFixAttempt(c))

can_attempt_fix_inclusive(fa, c) ==
    LET attempt == get_or_create_fix_attempt(fa, c)[c]
    IN  attempt.attempts <= attempt.max_attempts

can_attempt_fix_with_errors(fa, c) ==
    LET attempt == get_or_create_fix_attempt(fa, c)[c]
    IN  /\ attempt.attempts < attempt.max_attempts
        /\ Len(ErrorsOf(collected_errors, c)) > 0

\* can_attempt_fix
can_attempt_fix(fa, c) ==
    LET attempt == get_or_create_fix_attempt(fa, c)[c]
    IN  attempt.attempts < attempt.max_attempts

increment_fix_attempt_twice(fa, c, t) ==
    LET created == get_or_create_fix_attempt(fa, c)
    IN  [created EXCEPT ![c].attempts = @ + 2, ![c].last_fix_time = t]

\* increment_fix_attempt: the fix_attempts dict after the call at time t.
increment_fix_attempt(fa, c, t) ==
    LET created == get_or_create_fix_attempt(fa, c)
    IN  [created EXCEPT ![c].attempts = @ + 1, ![c].last_fix_time = t]

AllTreeFiles == TreeFiles.terraform \o TreeFiles.docker \o TreeFiles.helm

\* The file names os.walk reports for directory d (the tree has no nested
\* directories, so the walk of d yields the single tuple for d itself).
RECURSIVE DirListing(_, _)
DirListing(d, all) ==
    IF Len(all) = 0 THEN <<>>
    ELSE (IF Dirname(Head(all)) = d THEN <<Basename(Head(all))>> ELSE <<>>)
         \o DirListing(d, Tail(all))

\* file.endswith('.tf'), on the file names of the tree
IsTfFile(name) == name = <<"main.tf">>

RECURSIVE CountTf(_)
CountTf(names) ==
    IF Len(names) = 0 THEN 0
    ELSE (IF IsTfFile(Head(names)) THEN 1 ELSE 0) + CountTf(Tail(names))

\* Files fix_terraform writes back: every .tf file under every tf_dir.
RECURSIVE TerraformWrites(_)
TerraformWrites(dirs) ==
    IF Len(dirs) = 0 THEN 0
    ELSE CountTf(DirListing(Head(dirs), AllTreeFiles)) + TerraformWrites(Tail(dirs))

\* The value of the local name `files` of fix_terraform after its loops: the
\* inner os.walk loop rebinds it to the listing of the last directory walked.
TerraformFilesAfterWalk(dirs) == DirListing(dirs[Len(dirs)], AllTreeFiles)

\* Files a fixer with budget and a non-empty file list writes, and the list
\* it appends to files_fixed.
FixWrites(c) ==
    IF c = "terraform" THEN TerraformWrites(TerraformDirOrder)
    ELSE IF c = "docker" THEN Len(files[c])
    ELSE Cardinality({d \in ChartDirs(files[c]) : HasChartYaml(d)})

FixedLog(c) ==
    IF c = "terraform" THEN TerraformFilesAfterWalk(TerraformDirOrder)
    ELSE files[c]

\* fix_terraform / fix_docker / fix_helm, followed by the edge to nxt.
Fix(c, self, nxt) ==
    /\ node = self
    /\ IF ~can_attempt_fix(fix_attempts, c) \/ Len(files[c]) = 0
       THEN /\ fix_attempts' = get_or_create_fix_attempt(fix_attempts, c)
            /\ UNCHANGED <<now, file_writes, files_fixed, fix_applied, unvalidated>>
       ELSE /\ file_writes' = [file_writes EXCEPT ![c] = @ + FixWrites(c)]
            /\ unvalidated' = IF FixWrites(c) > 0 THEN unvalidated \cup {c}
                              ELSE unvalidated
            /\ fix_attempts' = increment_fix_attempt(fix_attempts, c, now)
            /\ now' = now + 1
            /\ files_fixed' = files_fixed \o FixedLog(c)
            /\ fix_applied' = TRUE
    /\ node' = nxt
    /\ last' = self
    /\ pending' = IF nxt = "validate" THEN {"terraform"} ELSE pending
    /\ validated' = IF nxt = "validate" THEN {} ELSE validated
    /\ UNCHANGED <<environment, fix_rounds, ever_failed, terraform_calls, chart_walk, file_text, exit_code, files, validation_results,
                   all_validations_complete, collected_errors, errors_by_file,
                   release_ready, release_results, docker_images_built,
                   helm_charts_released, terraform_applied, status,
                   error_message>>

fix_terraform == Fix("terraform", "fix_terraform", "fix_docker")
fix_docker == Fix("docker", "fix_docker", "fix_helm")
\* The edge fix_helm -> validate_terraform schedules that validator only.
fix_helm == Fix("helm", "fix_helm", "validate")

\* fix_terraform calls subprocess.run directly: a spawn failure of
\* `terraform fmt` raises out of the node and out of graph.invoke.  The spawn
\* fails for the k-th directory of the loop: the .tf files of the
\* directories before it have been rewritten, the attempt is not counted.
fix_terraform_raises ==
    /\ node = "fix_terraform"
    /\ can_attempt_fix(fix_attempts, "terraform")
    /\ Len(files["terraform"]) > 0
    /\ \E k \in 1..Len(TerraformDirOrder) :
          LET written == TerraformWrites(SubSeq(TerraformDirOrder, 1, k - 1))
          IN  /\ file_writes' = [file_writes EXCEPT !["terraform"] = @ + written]
              /\ unvalidated' = IF written > 0 THEN unvalidated \cup {"terraform"}
                                ELSE unvalidated
    /\ node' = "raised"
    /\ last' = "fix_terraform"
    /\ fix_attempts' = get_or_create_fix_attempt(fix_attempts, "terraform")
    /\ UNCHANGED <<environment, fix_rounds, ever_failed, terraform_calls, chart_walk, file_text, pending, validated, now, exit_code, files,
                   validation_results, all_validations_complete,
                   collected_errors, errors_by_file, files_fixed, fix_applied,
                   release_ready, release_results, docker_images_built,
                   helm_charts_released, terraform_applied, status,
                   error_message>>

\* ----------------------------------------------------------------- release
ReleaseEdgeStopsOnFailure(self) ==
    IF \E c \in DOMAIN release_results' :
          release_results'[c].status = "failed" THEN "END"
    ELSE IF self = "release_docker" THEN "release_helm"
    ELSE IF self = "release_helm" THEN "release_terraform"
    ELSE "END"

\* The edges release_docker -> release_helm -> release_terraform -> END.
ReleaseEdge(self) ==
    IF self = "release_docker" THEN "release_helm"
    ELSE IF self = "release_helm" THEN "release_terraform"
    ELSE "END"

SkippedResultFailed == [status |-> "failed"]

\* {"status": "skipped"}, recorded by a release stage with no files.
SkippedResult == [status |-> "skipped"]

RECURSIVE Successes(_, _, _)
\* The names (by naming function index) of the units whose tool run passed.
Successes(units, names, passed) ==
    IF Len(units) = 0 THEN <<>>
    ELSE (IF passed[Head(units)] THEN <<Head(names)>> ELSE <<>>)
         \o Successes(Tail(units), Tail(names), passed)

\* os.getcwd(): the directory the agent is started in.
Cwd == <<"/", "srv", "h01">>

\* os.path.abspath: an absolute path stays, a relative one is joined to the
\* working directory; "." components drop out.
Abspath(p) ==
    LET NotDot(x) == x # "."
    IN  IF Len(p) > 0 /\ p[1] = "/" THEN <<"/">> \o SelectSeq(Tail(p), NotDot)
        ELSE Cwd \o SelectSeq(p, NotDot)

\* str.lower, on the directory names of the trees.
Lower(name) == IF name = "Web" THEN "web" ELSE name

\* docker_dir = os.path.dirname(dockerfile) or "."
DockerDir(dockerfile) ==
    IF Len(Dirname(dockerfile)) = 0 THEN <<".">> ELSE Dirname(dockerfile)

\* tag = f"{image_name}:{timestamp}", image_name the lower-cased basename
\* of the absolute path of the Dockerfile's directory.
ImageTag(dockerfile, timestamp) ==
    LET name == Basename(Abspath(DockerDir(dockerfile)))
    IN  [image |-> [i \in 1..Len(name) |-> Lower(name[i])],
         timestamp |-> timestamp]

release_docker ==
    /\ node = "release_docker"
    /\ IF Len(files["docker"]) = 0
       THEN /\ release_results' = Put(release_results, "docker", SkippedResult)
            /\ UNCHANGED <<docker_images_built, now>>
       ELSE \E passed \in [Range(files["docker"]) -> BOOLEAN] :
            LET fs == files["docker"]
                tags == [i \in 1..Len(fs) |-> ImageTag(fs[i], now)]
                built_images == Successes(fs, tags, passed)
            IN  /\ docker_images_built' = built_images
                /\ release_results' = Put(release_results, "docker",
                        [status |-> IF Len(built_images) > 0 THEN "success" ELSE "failed",
                         images |-> built_images])
                /\ now' = now + 1
    /\ node' = ReleaseEdge("release_docker")
    /\ last' = "release_docker"
    /\ UNCHANGED <<environment, history, chart_walk, file_text, pending, validated, file_writes, exit_code, files,
                   validation_results, all_validations_complete,
                   collected_errors, errors_by_file, fix_attempts, files_fixed,
                   fix_applied, release_ready, helm_charts_released,
                   terraform_applied, status, error_message>>

release_helm ==
    /\ node = "release_helm"
    /\ IF Len(files["helm"]) = 0
       THEN /\ release_results' = Put(release_results, "helm", SkippedResult)
            /\ UNCHANGED helm_charts_released
       ELSE \E passed \in [Range(ChartDirOrder) -> BOOLEAN] :
            LET order == ChartDirOrder
                names == [i \in 1..Len(order) |-> Basename(order[i])]
                released_charts == Successes(order, names, passed)
            IN  /\ helm_charts_released' = released_charts
                /\ release_results' = Put(release_results, "helm",
                        [status |-> IF Len(released_charts) > 0 THEN "success" ELSE "failed",
                         charts |-> released_charts])
    /\ node' = ReleaseEdge("release_helm")
    /\ last' = "release_helm"
    /\ UNCHANGED <<environment, history, chart_walk, file_text, pending, validated, now, file_writes, exit_code, files,
                   validation_results, all_validations_complete,
                   collected_errors, errors_by_file, fix_attempts, files_fixed,
                   fix_applied, release_ready, docker_images_built,
                   terraform_applied, status, error_message>>

\* The loop of release_terraform over the directories in visit order:
\* out[d].plan and out[d].apply are the outcomes of the two commands.
\* One terraform command run through run_command in directory d.
TerraformCall(d, cmd, passed) == [dir |-> d, cmd |-> cmd, passed |-> passed]

RECURSIVE TerraformReleaseKeepsGoing(_, _, _)
TerraformReleaseKeepsGoing(order, out, applied) ==
    IF Len(order) = 0
    THEN [applied |-> applied, result |-> [status |-> "success"], calls |-> <<>>]
    ELSE LET d == Head(order)
             ok == out[d].plan /\ out[d].apply
             rest == TerraformReleaseKeepsGoing(Tail(order), out, applied \/ ok)
             here == <<TerraformCall(d, "plan", out[d].plan)>>
                     \o (IF out[d].plan
                         THEN <<TerraformCall(d, "apply", out[d].apply)>>
                         ELSE <<>>)
         IN  [applied |-> rest.applied,
              result |-> IF ok THEN rest.result
                         ELSE [status |-> "failed", error |-> "stderr"],
              calls |-> here \o rest.calls]

RECURSIVE TerraformRelease(_, _, _)
TerraformRelease(order, out, applied) ==
    IF Len(order) = 0
    THEN [applied |-> applied, result |-> [status |-> "success"], calls |-> <<>>]
    ELSE LET d == Head(order) IN
         IF out[d].plan
         THEN IF out[d].apply
              THEN LET rest == TerraformRelease(Tail(order), out, TRUE)
                   IN  [rest EXCEPT !.calls =
                            <<TerraformCall(d, "plan", TRUE),
                              TerraformCall(d, "apply", TRUE)>> \o @]
              ELSE [applied |-> applied,
                    result |-> [status |-> "failed", error |-> "stderr"],
                    calls |-> <<TerraformCall(d, "plan", TRUE),
                                TerraformCall(d, "apply", FALSE)>>]
         ELSE [applied |-> applied,
               result |-> [status |-> "failed", error |-> "stderr"],
               calls |-> <<TerraformCall(d, "plan", FALSE)>>]

\* release_terraform, followed by the edge release_terraform -> END
release_terraform ==
    /\ node = "release_terraform"
    /\ IF Len(files["terraform"]) = 0
       THEN /\ release_results' = Put(release_results, "terraform", SkippedResult)
            /\ UNCHANGED <<terraform_applied, terraform_calls>>
       ELSE \E out \in [Range(TerraformDirOrder) -> [plan : BOOLEAN, apply : BOOLEAN]] :
            LET r == TerraformRelease(TerraformDirOrder, out, terraform_applied)
            IN  /\ terraform_applied' = r.applied
                /\ release_results' = Put(release_results, "terraform", r.result)
                /\ terraform_calls' = r.calls
    /\ node' = ReleaseEdge("release_terraform")
    /\ last' = "release_terraform"
    /\ UNCHANGED <<environment, fix_rounds, ever_failed, unvalidated, chart_walk, file_text, pending, validated, now, file_writes, exit_code, files,
                   validation_results, all_validations_complete,
                   collected_errors, errors_by_file, fix_attempts, files_fixed,
                   fix_applied, release_ready, docker_images_built,
                   helm_charts_released, status, error_message>>

\* -------------------------------------------------------------- entry point
ExitCodeUnlessFailed(final_status) == IF final_status = "failed" THEN 1 ELSE 0

\* sys.exit(0 if result['status'] == 'success' else 1)
ExitCode(final_status) == IF final_status = "success" THEN 0 ELSE 1

MainExitSwallows(raised, final_status) ==
    IF raised THEN 0 ELSE ExitCode(final_status)

\* The exit code of main: the except branch exits with 1.
MainExit(raised, final_status) ==
    IF raised THEN 1 ELSE ExitCode(final_status)

\* main after run_cicd_agent returned (END) or raised.
main ==
    /\ node \in {"END", "raised"}
    /\ exit_code' = MainExit(node = "raised", status)
    /\ node' = "exited"
    /\ last' = node
    /\ UNCHANGED <<environment, history, chart_walk, file_text, pending, validated, now, file_writes, state>>

\* ------------------------------------------------------------ specification
\* The steps of a run in which every call returns.
NextReturning ==
    \/ discover_files
    \/ validate_terraform
    \/ validate_docker
    \/ validate_helm
    \/ collect_errors
    \/ decide
    \/ Route
    \/ fix_terraform
    \/ fix_docker
    \/ fix_helm
    \/ prepare_release
    \/ release_docker
    \/ release_helm
    \/ release_terraform
    \/ fail_workflow
    \/ main

Next ==
    \/ NextReturning
    \/ fix_terraform_raises

Spec == Init /\ [][Next]_vars

TypeOK ==
    /\ node \in {"discover", "validate", "collect_errors", "decide", "route",
                 "fix_terraform", "fix_docker", "fix_helm", "prepare_release",
                 "release_docker", "release_helm", "release_terraform",
                 "fail", "END", "raised", "exited"}
    /\ pending \subseteq Categories
    /\ status \in {"running", "fixing", "releasing", "success", "failed"}
    /\ DOMAIN fix_attempts = Categories

\* A fixer chain entered on any workflow state: every combination of used
\* attempts within the budget, for every tree; a budget below zero
\* (--max-fix-attempts -1) leaves the attempts above it from the start.
FixerInit ==
    /\ tree \in Trees(MaxFiles)
    /\ set_order \in [terraform : Orders(TerraformDirs(tree.terraform)),
                       helm : Orders(ChartDirs(tree.helm))]
    /\ node = "fix_terraform"
    /\ pending = {}
    /\ last = "decide"
    /\ validated = Categories
    /\ now = 0
    /\ file_writes = [c \in Categories |-> 0]
    /\ exit_code = None
    /\ files = [terraform |-> tree.terraform, docker |-> tree.docker,
                helm |-> tree.helm]
    /\ validation_results = [c \in Categories |-> <<>>]
    /\ all_validations_complete = TRUE
    /\ collected_errors = [c \in Categories |-> <<>>]
    /\ errors_by_file = EmptyDict
    /\ \E m \in (-1)..MaxFixAttempts :
         \E used \in [Categories -> 0..(IF m < 0 THEN 0 ELSE m)] :
            fix_attempts = [c \in Categories |->
                [file_type |-> c, attempts |-> used[c], max_attempts |-> m,
                 last_fix_time |-> None]]
    /\ files_fixed = <<>>
    /\ fix_applied = FALSE
    /\ release_ready = FALSE
    /\ release_results = EmptyDict
    /\ docker_images_built = <<>>
    /\ helm_charts_released = <<>>
    /\ terraform_applied = FALSE
    /\ status = "fixing"
    /\ error_message = NoMessage
    /\ HistoryInit
    /\ chart_walk = NoWalk
    /\ args = [max_fix_attempts |-> Given(fix_attempts["terraform"].max_attempts),
               dry_run |-> FALSE]
    /\ disk = DiskOf(tree)
    /\ file_text = NoText

FixerNext ==
    \/ fix_terraform
    \/ fix_docker
    \/ fix_helm
    \/ fix_terraform_raises

FixerSpec == FixerInit /\ [][FixerNext]_vars

\* The aggregator run twice: a run up to collect_errors, then the same node
\* once more on the state it returned.
AggregatorNext ==
    \/ discover_files
    \/ validate_terraform
    \/ validate_docker
    \/ validate_helm
    \/ collect_errors
    \/ collect_errors_again

AggregatorSpec == Init /\ [][AggregatorNext]_vars

\* ---------------------------------------------------------- chart-root walk
\* The loop of validate_helm, fix_helm and release_helm for one helm file f:
\*   chart_dir = os.path.dirname(f)
\*   while chart_dir and not os.path.exists(join(chart_dir, "Chart.yaml")):
\*       chart_dir = os.path.dirname(chart_dir)
\*   if chart_dir: chart_dirs.add(chart_dir)
\* chart_walk.tick counts the iterations modulo WalkTicks.
WalkDirNames == {"chart", "loose"}

RECURSIVE DirSeqsUpTo(_)
DirSeqsUpTo(n) ==
    IF n = 0 THEN {<<>>}
    ELSE DirSeqsUpTo(n - 1)
         \cup {<<x>> \o t : x \in WalkDirNames, t \in DirSeqsUpTo(n - 1)}

\* Relative and absolute paths of a values.yaml at most n directories deep.
HelmPaths(n) ==
    {pre \o d \o <<"values.yaml">> : pre \in {<<>>, Root}, d \in DirSeqsUpTo(n)}

WalkCondition ==
    Len(chart_walk.chart_dir) > 0 /\ ~HasChartYaml(chart_walk.chart_dir)

WalkFrame ==
    UNCHANGED <<environment, history, file_text, node, pending, last,
                validated, now, file_writes, exit_code, state>>

\* One iteration of the while loop.
ChartWalkUp ==
    /\ chart_walk.pc = "loop"
    /\ WalkCondition
    /\ chart_walk' = [chart_walk EXCEPT !.chart_dir = Dirname(@),
                                        !.tick = (@ + 1) % WalkTicks]
    /\ WalkFrame

\* The loop exits; a non-empty chart_dir is added to chart_dirs.
ChartWalkExit ==
    /\ chart_walk.pc = "loop"
    /\ ~WalkCondition
    /\ chart_walk' = [chart_walk EXCEPT
                        !.pc = IF Len(chart_walk.chart_dir) > 0
                               THEN "added" ELSE "dropped"]
    /\ WalkFrame

\* validate_helm about to resolve the only helm file of the tree.
WalkInit ==
    /\ \E f \in HelmPaths(MaxWalkDepth) :
          /\ tree = [terraform |-> <<>>, docker |-> <<>>, helm |-> <<f>>]
          /\ chart_walk = [path |-> f, chart_dir |-> Dirname(f),
                           pc |-> "loop", tick |-> 0]
    /\ set_order = [terraform |-> <<>>, helm |-> <<>>]
    /\ node = "validate"
    /\ pending = {"helm"}
    /\ last = "discover"
    /\ validated = {"terraform", "docker"}
    /\ now = 0
    /\ file_writes = [c \in Categories |-> 0]
    /\ exit_code = None
    /\ files = tree
    /\ validation_results = [terraform |-> <<>>, docker |-> <<>>]
    /\ all_validations_complete = FALSE
    /\ collected_errors = EmptyDict
    /\ errors_by_file = EmptyDict
    /\ args = [max_fix_attempts |-> NotGiven, dry_run |-> FALSE]
    /\ disk = DiskOf(tree)
    /\ file_text = NoText
    /\ fix_attempts = SeedFixAttempts(DefaultMaxFixAttempts)
    /\ files_fixed = <<>>
    /\ fix_applied = FALSE
    /\ release_ready = FALSE
    /\ release_results = EmptyDict
    /\ docker_images_built = <<>>
    /\ helm_charts_released = <<>>
    /\ terraform_applied = FALSE
    /\ status = "running"
    /\ error_message = NoMessage
    /\ HistoryInit

WalkNext ==
    \/ ChartWalkUp
    \/ ChartWalkExit

\* The interpreter keeps executing the loop.
WalkSpec == WalkInit /\ [][WalkNext]_vars /\ WF_vars(WalkNext)

\* validate_helm inside a run: the for loop reaches the first file whose
\* walk does not end and enters its while loop.
validate_helm_walks ==
    /\ node = "validate"
    /\ "helm" \in pending
    /\ chart_walk.pc = "idle"
    /\ ~ChartWalksEnd(files["helm"])
    /\ LET i == CHOOSE j \in 1..Len(files["helm"]) :
                    /\ WalkDiverges(Dirname(files["helm"][j]))
                    /\ \A k \in 1..(j - 1) :
                          ~WalkDiverges(Dirname(files["helm"][k]))
           f == files["helm"][i]
       IN  chart_walk' = [path |-> f, chart_dir |-> Dirname(f),
                          pc |-> "loop", tick |-> 0]
    /\ WalkFrame

\* The steps of a run in which every tool call returns: the nodes, and the
\* iterations of the chart walk validate_helm is in.
LiveNext ==
    \/ NextReturning
    \/ validate_helm_walks
    \/ ChartWalkUp

\* The graph engine runs a scheduled node, the interpreter keeps executing
\* a loop, and tool calls return.
FairSpec == LiveInit /\ [][LiveNext]_vars /\ WF_vars(LiveNext)

\* ------------------------------------------------------- argument handling
\* Runs with --max-fix-attempts given or left out, with and without
\* --dry-run.
ArgInit ==
    StartWith({DiskOf(t) : t \in Trees(MaxLiveFiles)},
              [max_fix_attempts : {NotGiven} \cup {Given(n) : n \in (-1)..MaxLiveFixAttempts},
               dry_run : BOOLEAN])

ArgSpec == ArgInit /\ [][Next]_vars

\* ------------------------------------------------- with and without --dry-run
\* `python main.py <paths> --dry-run` and `python main.py <paths>` on the
\* same files with the same tools: the two processes are advanced in
\* lockstep.  Before each step the tools fix what they will answer to the
\* call of that step (and the engine which validator it runs); the run with
\* the flag takes the step, then the run without it takes its step from the
\* state it is in, which is the state the flagged run left from as long as
\* the two have not parted.
\* Everything a run changes.
RunState ==
    [node |-> node,
     pending |-> pending,
     last |-> last,
     validated |-> validated,
     now |-> now,
     file_writes |-> file_writes,
     exit_code |-> exit_code,
     files |-> files,
     validation_results |-> validation_results,
     all_validations_complete |-> all_validations_complete,
     collected_errors |-> collected_errors,
     errors_by_file |-> errors_by_file,
     fix_attempts |-> fix_attempts,
     files_fixed |-> files_fixed,
     fix_applied |-> fix_applied,
     release_ready |-> release_ready,
     release_results |-> release_results,
     docker_images_built |-> docker_images_built,
     helm_charts_released |-> helm_charts_released,
     terraform_applied |-> terraform_applied,
     status |-> status,
     error_message |-> error_message,
     fix_rounds |-> fix_rounds,
     ever_failed |-> ever_failed,
     terraform_calls |-> terraform_calls,
     unvalidated |-> unvalidated,
     chart_walk |-> chart_walk,
     file_text |-> file_text]

run == <<node, pending, last, validated, now, file_writes, exit_code, state,
         history, chart_walk, file_text>>

\* What the tools (and the scheduler) can answer to the call the node at
\* hand makes: run_command / subprocess.run outcomes per unit and tool.
ToolAnswers ==
    IF node = "validate"
    THEN UNION {{[call |-> c, out |-> o] :
                    o \in IF Len(files[c]) = 0 THEN {<<>>}
                          ELSE Outcomes(Range(ValidationUnits(c)), ToolsOf(c))} :
                c \in {x \in pending : x = "helm" => ChartWalksEnd(files[x])}}
    ELSE IF node = "fix_terraform"
    THEN {[call |-> "terraform_fmt", raises_at |-> k] :
             k \in IF can_attempt_fix(fix_attempts, "terraform")
                      /\ Len(files["terraform"]) > 0
                   THEN 0..Len(TerraformDirOrder) ELSE {0}}
    ELSE IF node = "release_docker"
    THEN {[call |-> "docker", passed |-> p] :
             p \in [Range(files["docker"]) -> BOOLEAN]}
    ELSE IF node = "release_helm"
    THEN {[call |-> "helm", passed |-> p] :
             p \in [Range(ChartDirOrder) -> BOOLEAN]}
    ELSE IF node = "release_terraform"
    THEN {[call |-> "terraform", out |-> o] :
             o \in [Range(TerraformDirOrder) -> [plan : BOOLEAN, apply : BOOLEAN]]}
    ELSE {[call |-> "none"]}

\* The tools settle their answers for the next step of both runs; the run
\* with --dry-run goes first.
tools_answer ==
    /\ node # "exited"
    /\ \/ twin.phase = "off"
       \/ twin.phase = "second" /\ RunState # twin.before
    /\ \E a \in ToolAnswers :
          twin' = [phase |-> "first", answer |-> a,
                   before |-> RunState, after |-> RunState]
    /\ args' = [args EXCEPT !.dry_run = TRUE]
    /\ UNCHANGED <<tree, set_order, disk, run>>

\* The run with --dry-run has taken its step: the run without the flag is
\* at the state before that step.
run_without_flag ==
    /\ twin.phase = "first"
    /\ RunState # twin.before
    /\ twin' = [twin EXCEPT !.phase = "second", !.after = RunState]
    /\ args' = [args EXCEPT !.dry_run = FALSE]
    /\ node' = twin.before.node
    /\ pending' = twin.before.pending
    /\ last' = twin.before.last
    /\ validated' = twin.before.validated
    /\ now' = twin.before.now
    /\ file_writes' = twin.before.file_writes
    /\ exit_code' = twin.before.exit_code
    /\ files' = twin.before.files
    /\ validation_results' = twin.before.validation_results
    /\ all_validations_complete' = twin.before.all_validations_complete
    /\ collected_errors' = twin.before.collected_errors
    /\ errors_by_file' = twin.before.errors_by_file
    /\ fix_attempts' = twin.before.fix_attempts
    /\ files_fixed' = twin.before.files_fixed
    /\ fix_applied' = twin.before.fix_applied
    /\ release_ready' = twin.before.release_ready
    /\ release_results' = twin.before.release_results
    /\ docker_images_built' = twin.before.docker_images_built
    /\ helm_charts_released' = twin.before.helm_charts_released
    /\ terraform_applied' = twin.before.terraform_applied
    /\ status' = twin.before.status
    /\ error_message' = twin.before.error_message
    /\ fix_rounds' = twin.before.fix_rounds
    /\ ever_failed' = twin.before.ever_failed
    /\ terraform_calls' = twin.before.terraform_calls
    /\ unvalidated' = twin.before.unvalidated
    /\ chart_walk' = twin.before.chart_walk
    /\ file_text' = twin.before.file_text
    /\ UNCHANGED <<tree, set_order, disk>>

\* The run whose turn it is has not taken its step yet.
InTurn == twin.phase \in {"first", "second"} /\ RunState = twin.before

\* The step made the call with the outcome the tools settled on.
AsAnswered ==
    LET a == twin.answer IN
    IF node = "validate"
    THEN /\ pending' = pending \ {a.call}
         /\ Len(files[a.call]) > 0 =>
               validation_results' =
                   WriteResults(validation_results, a.call,
                                RunTools(ValidationUnits(a.call),
                                         ToolsOf(a.call), a.out))
    ELSE IF node = "fix_terraform"
    THEN IF a.raises_at = 0 THEN node' # "raised"
         ELSE /\ node' = "raised"
              /\ file_writes' =
                    [file_writes EXCEPT !["terraform"] = @ +
                        TerraformWrites(SubSeq(TerraformDirOrder, 1,
                                               a.raises_at - 1))]
    ELSE IF node = "release_docker"
    THEN Len(files["docker"]) > 0 =>
            docker_images_built' =
                Successes(files["docker"],
                          [i \in 1..Len(files["docker"]) |->
                              ImageTag(files["docker"][i], now)],
                          a.passed)
    ELSE IF node = "release_helm"
    THEN Len(files["helm"]) > 0 =>
            helm_charts_released' =
                Successes(ChartDirOrder,
                          [i \in 1..Len(ChartDirOrder) |->
                              Basename(ChartDirOrder[i])],
                          a.passed)
    ELSE IF node = "release_terraform"
    THEN Len(files["terraform"]) > 0 =>
            terraform_calls' =
                TerraformRelease(TerraformDirOrder, a.out, terraform_applied).calls
    ELSE TRUE

\* Both runs get the same explicit --max-fix-attempts.
TwinInit ==
    StartWith({DiskOf(t) : t \in Trees(MaxLiveFiles)},
              [max_fix_attempts : {Given(n) : n \in 0..MaxLiveFixAttempts},
               dry_run : {TRUE}])

TwinNext ==
    \/ tools_answer
    \/ run_without_flag
    \/ InTurn /\ discover_files /\ AsAnswered
    \/ InTurn /\ validate_terraform /\ AsAnswered
    \/ InTurn /\ validate_docker /\ AsAnswered
    \/ InTurn /\ validate_helm /\ AsAnswered
    \/ InTurn /\ collect_errors /\ AsAnswered
    \/ InTurn /\ decide /\ AsAnswered
    \/ InTurn /\ Route /\ AsAnswered
    \/ InTurn /\ fix_terraform /\ AsAnswered
    \/ InTurn /\ fix_terraform_raises /\ AsAnswered
    \/ InTurn /\ fix_docker /\ AsAnswered
    \/ InTurn /\ fix_helm /\ AsAnswered
    \/ InTurn /\ prepare_release /\ AsAnswered
    \/ InTurn /\ release_docker /\ AsAnswered
    \/ InTurn /\ release_helm /\ AsAnswered
    \/ InTurn /\ release_terraform /\ AsAnswered
    \/ InTurn /\ fail_workflow /\ AsAnswered
    \/ InTurn /\ main /\ AsAnswered

TwinSpec == TwinInit /\ [][TwinNext]_vars

\* ------------------------------------------------------ discovery on a disk
\* Files under the roots ".", "proj", ".hidden" and "node_modules": names
\* that match several categories, and files below excluded directories.
DiskPaths ==
    {<<".", "main.tf">>, <<".", ".git", "main.tf">>,
     <<"proj", "node_modules", "Dockerfile">>,
     <<"proj", "templates", "Dockerfile.tf">>,
     <<"proj", "templates", "Dockerfile">>,
     <<"proj", "templates", "deploy.yaml">>,
     <<"proj", "README.md">>, <<"proj", "docker-compose.yml">>,
     <<".hidden", "values.yaml">>, <<"node_modules", "prod.tfvars">>}

\* The sequences of at most n distinct elements of S.
RECURSIVE SeqsNoRep(_, _)
SeqsNoRep(S, n) ==
    IF n = 0 THEN {<<>>}
    ELSE {<<>>} \cup UNION {{<<x>> \o t : t \in SeqsNoRep(S \ {x}, n - 1)} : x \in S}

DiscoveryInit ==
    StartWith(SeqsNoRep(DiskPaths, MaxDiskFiles),
              {[max_fix_attempts |-> NotGiven, dry_run |-> FALSE]})

DiscoveryNext == discover_files

DiscoverySpec == DiscoveryInit /\ [][DiscoveryNext]_vars

\* ------------------------------------------------------- Dockerfile rewrite
\* A Dockerfile line: its instruction and, for FROM, the image and the tag;
\* the tag is the sequence of the strings it is concatenated from.
DockerLine(instr) == [instr |-> instr, image |-> "", tag |-> <<>>]
FromLine(image, tag) == [instr |-> "FROM", image |-> image, tag |-> tag]

DockerLines ==
    {FromLine("python", <<"3.9">>), FromLine("golang", <<"1.21">>),
     FromLine("node", <<"latest">>), FromLine("alpine", <<>>)}
    \cup {DockerLine(i) : i \in {"RUN", "CMD", "ENTRYPOINT", "WORKDIR", "USER"}}

\* base_image_updates
PinnedTag(image) ==
    IF image = "python" THEN "3.11-slim"
    ELSE IF image = "node" THEN "20-alpine"
    ELSE IF image = "ubuntu" THEN "22.04"
    ELSE "3.18"

\* The base-image update of one line: 'FROM image:' is replaced by
\* 'FROM image:<pinned>' and what followed it stays behind the pinned tag.
UpdateBaseImage(l) ==
    IF /\ l.instr = "FROM"
       /\ l.image \in {"python", "node", "ubuntu", "alpine"}
       /\ Len(l.tag) > 0
       /\ \A i \in 1..Len(l.tag) : l.tag[i] # "latest"
    THEN [l EXCEPT !.tag = <<PinnedTag(l.image)>> \o @]
    ELSE l

\* any('WORKDIR' in l for l in lines) / any('USER' in l for l in lines)
HasInstr(lines, instr) == \E i \in 1..Len(lines) : lines[i].instr = instr

\* The loop of fix_docker over the lines it read; orig is the list read.
RECURSIVE FixDockerLines(_, _)
FixDockerLines(rest, orig) ==
    IF Len(rest) = 0 THEN <<>>
    ELSE LET line == UpdateBaseImage(Head(rest)) IN
         (IF line.instr = "FROM" /\ ~HasInstr(orig, "WORKDIR")
          THEN <<line, DockerLine("WORKDIR")>>
          ELSE IF line.instr \in {"CMD", "ENTRYPOINT"} /\ ~HasInstr(orig, "USER")
          THEN <<DockerLine("USER"), line>>
          ELSE <<line>>)
         \o FixDockerLines(Tail(rest), orig)

\* A workflow that is not running, beside which one file is rewritten.
IdleRun ==
    /\ disk = <<>>
    /\ args = [max_fix_attempts |-> NotGiven, dry_run |-> FALSE]
    /\ tree = Discover(disk)
    /\ set_order = [terraform |-> <<>>, helm |-> <<>>]
    /\ node = "fix_docker"
    /\ pending = {}
    /\ last = "fix_terraform"
    /\ validated = Categories
    /\ now = 0
    /\ file_writes = [c \in Categories |-> 0]
    /\ exit_code = None
    /\ files = tree
    /\ validation_results = [c \in Categories |-> <<>>]
    /\ all_validations_complete = TRUE
    /\ collected_errors = [c \in Categories |-> <<>>]
    /\ errors_by_file = EmptyDict
    /\ fix_attempts = SeedFixAttempts(DefaultMaxFixAttempts)
    /\ files_fixed = <<>>
    /\ fix_applied = FALSE
    /\ release_ready = FALSE
    /\ release_results = EmptyDict
    /\ docker_images_built = <<>>
    /\ helm_charts_released = <<>>
    /\ terraform_applied = FALSE
    /\ status = "fixing"
    /\ error_message = NoMessage
    /\ HistoryInit
    /\ chart_walk = NoWalk

\* The body of the loop `for dockerfile in files` for one Dockerfile: read
\* the lines, rewrite them, write them back.
rewrite_dockerfile ==
    /\ file_text.applied < MaxRewrites
    /\ file_text' = [file_text EXCEPT
                        !.lines = FixDockerLines(file_text.lines, file_text.lines),
                        !.applied = @ + 1]
    /\ UNCHANGED <<environment, history, chart_walk, node, pending, last,
                   validated, now, file_writes, exit_code, state>>

DockerFixInit ==
    /\ IdleRun
    /\ \E n \in 0..MaxDockerLines :
          \E ls \in [1..n -> DockerLines] :
             file_text = [original |-> ls, lines |-> ls, applied |-> 0]

DockerFixNext == rewrite_dockerfile

DockerFixSpec == DockerFixInit /\ [][DockerFixNext]_vars

\* ---------------------------------------------------------- .tf file rewrite
\* The content of a .tf file is the sequence of the pieces of text it is
\* made of, one per line or block.
ProviderDecl == "provider \"aws\" {}"
ProviderArg == "  provider = aws.west"
ResourceDecl == "resource \"null_resource\" \"x\" {}"
RequiredProviders == "terraform { required_providers {} }"
\* The text fix_terraform puts in front of 'provider "'.
PlaceholderBlock ==
    "terraform {\n  required_providers {\n    # Providers will be auto-detected\n  }\n}\n\n"

TfPieces == {ProviderDecl, ProviderArg, ResourceDecl, RequiredProviders}

\* 'required_providers' in content
HasRequiredProviders(content) ==
    \E i \in 1..Len(content) : content[i] \in {RequiredProviders, PlaceholderBlock}

\* 'provider ' in content
HasProviderWord(content) ==
    \E i \in 1..Len(content) : content[i] \in {ProviderDecl, ProviderArg}

\* content.replace('provider "', block + 'provider "'): every occurrence
\* of 'provider "' gets the block in front of it.
RECURSIVE ReplaceProviderQuote(_)
ReplaceProviderQuote(content) ==
    IF Len(content) = 0 THEN <<>>
    ELSE (IF Head(content) = ProviderDecl
          THEN <<PlaceholderBlock, ProviderDecl>>
          ELSE <<Head(content)>>)
         \o ReplaceProviderQuote(Tail(content))

\* The content fix_terraform writes back for the content it read.
FixTerraformText(content) ==
    IF ~HasRequiredProviders(content) /\ HasProviderWord(content)
    THEN ReplaceProviderQuote(content)
    ELSE content

\* The body of the loop over the .tf files for one file: read, fix, write.
rewrite_tf_file ==
    /\ file_text.applied < MaxRewrites
    /\ file_text' = [file_text EXCEPT !.lines = FixTerraformText(file_text.lines),
                                      !.applied = @ + 1]
    /\ UNCHANGED <<environment, history, chart_walk, node, pending, last,
                   validated, now, file_writes, exit_code, state>>

TerraformFixInit ==
    /\ IdleRun
    /\ \E n \in 0..MaxTfPieces :
          \E ls \in [1..n -> TfPieces] :
             file_text = [original |-> ls, lines |-> ls, applied |-> 0]

TerraformFixNext == rewrite_tf_file

TerraformFixSpec == TerraformFixInit /\ [][TerraformFixNext]_vars

\* ------------------------------------------------------- Chart.yaml rewrite
\* The content of a Chart.yaml is the sequence of the pieces of text it is
\* concatenated from: the lines it had, with their newline, and the pieces
\* fix_helm puts before and behind them.
ChartPieces ==
    {"apiVersion: v1\n", "name: web\n", "version: 1.2.0\n",
     "appVersion: 1.0\n", "fullname: web\n", "description: x\n"}

\* field in content, for the three required fields: 'name:' is also found
\* in 'fullname:', 'version:' is found in neither 'apiVersion:' nor
\* 'appVersion:'.
HasField(content, field) ==
    \E i \in 1..Len(content) :
        content[i] \in
            (IF field = "apiVersion:" THEN {"apiVersion: v1\n", "apiVersion: v2\n"}
             ELSE IF field = "name:" THEN {"name: web\n", "fullname: web\n", "\nname: "}
             ELSE {"version: 1.2.0\n", "\nversion: 0.1.0\n"})

FixChartTextNoCheck(content, chart_dir) ==
    LET with_api == IF ~HasField(content, "apiVersion:")
                    THEN <<"apiVersion: v2\n">> \o content ELSE content
        with_name == IF ~HasField(with_api, "name:")
                     THEN with_api \o <<"\nname: ">> \o Basename(chart_dir) \o <<"\n">>
                     ELSE with_api
    IN  with_name \o <<"\nversion: 0.1.0\n">>

\* The loop over required_fields: apiVersion goes in front of the content,
\* name (the basename of the chart directory) and version behind it.
FixChartText(content, chart_dir) ==
    LET with_api == IF ~HasField(content, "apiVersion:")
                    THEN <<"apiVersion: v2\n">> \o content ELSE content
        with_name == IF ~HasField(with_api, "name:")
                     THEN with_api \o <<"\nname: ">> \o Basename(chart_dir) \o <<"\n">>
                     ELSE with_api
    IN  IF ~HasField(with_name, "version:")
        THEN with_name \o <<"\nversion: 0.1.0\n">> ELSE with_name

\* The body of the loop over chart_dirs for the chart of TreeFiles, whose
\* Chart.yaml exists: read, fix, write.
rewrite_chart_yaml ==
    /\ file_text.applied < MaxRewrites
    /\ file_text' = [file_text EXCEPT
                        !.lines = FixChartText(file_text.lines,
                                               Dirname(TreeFiles.helm[1])),
                        !.applied = @ + 1]
    /\ UNCHANGED <<environment, history, chart_walk, node, pending, last,
                   validated, now, file_writes, exit_code, state>>

HelmFixInit ==
    /\ IdleRun
    /\ \E n \in 0..MaxChartPieces :
          \E ls \in [1..n -> ChartPieces] :
             file_text = [original |-> ls, lines |-> ls, applied |-> 0]

HelmFixNext == rewrite_chart_yaml

HelmFixSpec == HelmFixInit /\ [][HelmFixNext]_vars

\* ------------------------------------------------------------------ claims
\* not can_attempt_fix: the budget of the category is used up.
Exhausted(c) == fix_attempts[c].attempts >= fix_attempts[c].max_attempts

FixerNode(c) ==
    IF c = "terraform" THEN "fix_terraform"
    ELSE IF c = "docker" THEN "fix_docker"
    ELSE "fix_helm"

\* C1: under fair scheduling, and with every tool call returning, every run
\* of the graph reaches END, coming from fail or from release_terraform; the
\* fix branch is not taken forever.
C1_Termination ==
    <>(node = "END" /\ last \in {"fail", "release_terraform"})

\* C2: for each category, attempts never exceeds max_attempts, and attempts
\* never decreases from one step to the next.
C2_FixBudget ==
    /\ [](\A c \in Categories :
            fix_attempts[c].attempts <= fix_attempts[c].max_attempts)
    /\ [][\A c \in Categories :
            fix_attempts'[c].attempts >= fix_attempts[c].attempts]_vars

\* A finished run in which a category used its whole, non-zero budget.
C2_Witness ==
    /\ node = "END"
    /\ \E c \in Categories :
          /\ fix_attempts[c].attempts = MaxFixAttempts
          /\ fix_attempts[c].max_attempts = MaxFixAttempts
          /\ MaxFixAttempts >= 1

\* C3: at END the status is success or failed; it is success when END is
\* reached through the release chain and failed when reached through fail.
C3_TerminalStatus ==
    node = "END" =>
        /\ status \in {"success", "failed"}
        /\ last = "release_terraform" => status = "success"
        /\ last = "fail" => status = "failed"

\* C4: the process exits with code 0 exactly when run_cicd_agent returned a
\* result whose status is success, and with code 1 for any other status and
\* when run_cicd_agent raised.
C4_ExitCode ==
    node = "exited" =>
        /\ exit_code \in {0, 1}
        /\ exit_code = 0 <=> (last = "END" /\ status = "success")

\* The process has exited after a run that ended through the release chain
\* with a status other than success.
C4_Witness ==
    /\ node = "exited"
    /\ last = "END"
    /\ status = "releasing"
    /\ exit_code = 1

\* C5: whenever decide_next_action runs with zero collected errors it marks
\* the release ready and, as router, selects the release edge, whatever the
\* fix attempts are.
C5_ZeroErrorsRelease ==
    [][(node \in {"decide", "route"} /\ total_errors(collected_errors) = 0) =>
            /\ release_ready'
            /\ status' = status
            /\ node = "route" => node' = "prepare_release"]_vars

\* Release was selected with every category's non-zero budget used up.
C5_Witness ==
    /\ node = "prepare_release"
    /\ total_errors(collected_errors) = 0
    /\ \A c \in Categories : Exhausted(c) /\ fix_attempts[c].attempts >= 1

\* C6: whenever decide_next_action runs with errors left and every category
\* at attempts = max_attempts, it sets status to failed, sets error_message
\* to the summary carrying the total error count, and selects the fail edge.
C6_ExhaustedFails ==
    [][(/\ node \in {"decide", "route"}
        /\ total_errors(collected_errors) > 0
        /\ \A c \in Categories : Exhausted(c)) =>
            /\ status' = "failed"
            /\ error_message' # NoMessage
            /\ error_message'[2] = total_errors(collected_errors)
            /\ node = "route" => node' = "fail"]_vars

\* The fail edge was selected with errors left and every category's
\* non-zero budget used up.
C6_Witness ==
    /\ node = "fail"
    /\ total_errors(collected_errors) > 0
    /\ \A c \in Categories : Exhausted(c) /\ fix_attempts[c].attempts >= 1
    /\ error_message # NoMessage

\* C7 as stated: whenever decide_next_action runs with errors left and at
\* least one of the three categories has attempts < max_attempts, it sets
\* status to fixing and selects the fix edge.
C7_AnyCategoryUnderBudget ==
    [][(/\ node \in {"decide", "route"}
        /\ total_errors(collected_errors) > 0
        /\ \E c \in Categories :
              fix_attempts[c].attempts < fix_attempts[c].max_attempts) =>
            /\ status' = "fixing"
            /\ node = "route" => node' = "fix_terraform"]_vars

\* C7 amended: whenever decide_next_action runs and at least one category
\* that has collected errors has attempts < max_attempts, it sets status to
\* fixing and selects the fix edge.
C7_ErroredCategoryUnderBudget ==
    [][(/\ node \in {"decide", "route"}
        /\ \E c \in Categories :
              /\ Len(collected_errors[c]) > 0
              /\ fix_attempts[c].attempts < fix_attempts[c].max_attempts) =>
            /\ status' = "fixing"
            /\ node = "route" => node' = "fix_terraform"]_vars

\* The fix edge was selected for docker errors alone, terraform being clean.
C7_Witness ==
    /\ node = "fix_terraform"
    /\ last = "decide"
    /\ status = "fixing"
    /\ Len(collected_errors["docker"]) > 0
    /\ Len(collected_errors["terraform"]) = 0
    /\ ~Exhausted("docker")

\* C8: whenever collect_errors is about to run, all three validators have
\* run since validation was entered, also when it was entered from the
\* fixer chain.
C8_RevalidateAll ==
    node = "collect_errors" => validated = Categories

\* C9: a release stage runs, and release outputs exist, only with zero
\* collected errors and the release marked ready; a run that ends through
\* fail has no release result, no image, no chart and nothing applied.
C9_ReleaseGating ==
    /\ (\/ node \in {"release_docker", "release_helm", "release_terraform"}
        \/ DOMAIN release_results # {}
        \/ Len(docker_images_built) > 0
        \/ Len(helm_charts_released) > 0
        \/ terraform_applied)
         => (total_errors(collected_errors) = 0 /\ release_ready)
    /\ (node = "END" /\ last = "fail") =>
            /\ DOMAIN release_results = {}
            /\ docker_images_built = <<>>
            /\ helm_charts_released = <<>>
            /\ ~terraform_applied

\* A run with a Dockerfile that went round the fix loop and ended through fail.
C9_Witness ==
    /\ node = "END"
    /\ last = "fail"
    /\ Len(files["docker"]) > 0
    /\ Len(collected_errors["docker"]) > 0
    /\ fix_attempts["docker"].attempts >= 1

\* C10: a fixer that runs with its category at attempts = max_attempts
\* writes no file and leaves every field of the workflow state as it was.
C10_ExhaustedFixerNoOp ==
    [][\A c \in Categories :
          (node = FixerNode(c) /\ Exhausted(c)) =>
              /\ UNCHANGED state
              /\ UNCHANGED file_writes]_vars

\* fix_docker has just run on a non-empty file list with its non-zero
\* budget used up.
C10_Witness ==
    /\ node = "fix_helm"
    /\ last = "fix_docker"
    /\ Len(files["docker"]) > 0
    /\ Exhausted("docker")
    /\ fix_attempts["docker"].attempts >= 1
    /\ file_writes["docker"] = 0


\* C11: when a fixer runs for a category that has no discovered files, or
\* that has zero collected errors in the current pass, the category's
\* attempts counter is not incremented and none of its files is written.
C11_NoWorkNoBudget ==
    [][\A c \in Categories :
          (/\ node = FixerNode(c)
           /\ (Len(files[c]) = 0 \/ Len(collected_errors[c]) = 0)) =>
              /\ fix_attempts'[c].attempts = fix_attempts[c].attempts
              /\ file_writes'[c] = file_writes[c]]_vars

\* C12: release_terraform runs plan then apply directory by directory, apply
\* only after that directory's plan succeeded, and nothing after the first
\* command that fails; the recorded status is failed exactly when a command
\* failed, and success only when plan and apply succeeded in every directory.
C12_TerraformFailFast ==
    ("terraform" \in DOMAIN release_results /\ Len(files["terraform"]) > 0) =>
        LET calls == terraform_calls
            result == release_results["terraform"]
            Ran(d, cmd) == \E i \in 1..Len(calls) :
                              calls[i] = TerraformCall(d, cmd, TRUE)
        IN  /\ Len(calls) > 0
            /\ \A i \in 1..Len(calls) :
                  /\ i < Len(calls) => calls[i].passed
                  /\ calls[i].cmd = "apply" =>
                        /\ i > 1
                        /\ calls[i - 1] = TerraformCall(calls[i].dir, "plan", TRUE)
                  /\ \A j \in 1..Len(calls) :
                        (i < j /\ calls[i].dir = calls[j].dir) =>
                            (j = i + 1 /\ calls[j].cmd = "apply")
            /\ result.status \in {"success", "failed"}
            /\ result.status = "failed" <=> ~calls[Len(calls)].passed
            /\ result.status = "success" <=>
                  \A d \in TerraformDirs(files["terraform"]) :
                      Ran(d, "plan") /\ Ran(d, "apply")

\* Two terraform directories; a command failed in the first one visited and
\* the second one was not touched.
C12_Witness ==
    /\ node = "END"
    /\ last = "release_terraform"
    /\ Cardinality(TerraformDirs(files["terraform"])) = 2
    /\ release_results["terraform"].status = "failed"
    /\ Len(terraform_calls) > 0
    /\ \A i \in 1..Len(terraform_calls) :
          terraform_calls[i].dir = terraform_calls[1].dir

\* C13: a run with a fix budget in which docker is the only category whose
\* validator ever reported a failure takes the fix branch exactly once and
\* ends through the release chain with status success.
C13_RemediationSucceeds ==
    (/\ node = "END"
     /\ ever_failed = {"docker"}
     /\ fix_attempts["docker"].max_attempts >= 1) =>
        /\ fix_rounds = 1
        /\ last = "release_terraform"
        /\ status = "success"

\* C14: a run in which a category with files still has errors at the end
\* took the fix branch exactly max_attempts times, used that category's
\* budget up, and ended through fail with status failed.
C14_BudgetExhaustion ==
    \A c \in Categories :
        (/\ node = "END"
         /\ Len(files[c]) > 0
         /\ Len(collected_errors[c]) > 0) =>
            /\ fix_rounds = fix_attempts[c].max_attempts
            /\ fix_attempts[c].attempts = fix_attempts[c].max_attempts
            /\ last = "fail"
            /\ status = "failed"

\* A helm chart that failed validation, with a budget of one attempt: one
\* round of the fixer chain, then fail.
C14_Witness ==
    /\ node = "END"
    /\ last = "fail"
    /\ Len(collected_errors["helm"]) > 0
    /\ fix_attempts["helm"].max_attempts = 1
    /\ fix_attempts["helm"].attempts = 1
    /\ fix_rounds = 1
    /\ status = "failed"

\* C15: when discovery finds no file of any category, every validator records
\* an empty result list, the collected errors are zero, the decision selects
\* release without a fixer having run, and the three release results all
\* have status skipped.
C15_EmptyInput ==
    (\A c \in Categories : Len(tree[c]) = 0) =>
        /\ \A c \in DOMAIN validation_results : validation_results[c] = <<>>
        /\ total_errors(collected_errors) = 0
        /\ fix_rounds = 0
        /\ ~fix_applied
        /\ file_writes = [c \in Categories |-> 0]
        /\ node \notin {"fix_terraform", "fix_docker", "fix_helm", "fail", "raised"}
        /\ node = "collect_errors" => DOMAIN validation_results = Categories
        /\ \A c \in DOMAIN release_results : release_results[c].status = "skipped"
        /\ node = "END" =>
              /\ last = "release_terraform"
              /\ DOMAIN release_results = Categories

\* The run on an empty tree has ended through the release chain.
C15_Witness ==
    /\ node = "END"
    /\ \A c \in Categories : Len(tree[c]) = 0 /\ Len(files[c]) = 0
    /\ \A c \in Categories : release_results[c].status = "skipped"

\* C16: no tool failure raises out of the node that made the call.
C16_ToolFailureNotFatal ==
    node # "raised"

\* C17: when the run raises, main catches the exception and the process
\* exits with code 1.
C17_ErrorBoundary ==
    /\ [][node = "raised" => (node' = "exited" /\ exit_code' = 1)]_vars
    /\ [](node = "exited" /\ last = "raised" => exit_code = 1)

\* The process has exited after fix_terraform raised.
C17_Witness ==
    /\ node = "exited"
    /\ last = "raised"
    /\ exit_code = 1

\* C18: for every helm file path, relative or absolute, the upward walk
\* ends; it adds a directory only if that directory holds a Chart.yaml, and
\* a file with no such ancestor adds nothing.
C18_ChartWalkTerminates ==
    /\ <>(chart_walk.pc \in {"added", "dropped"})
    /\ [](chart_walk.pc = "added" => HasChartYaml(chart_walk.chart_dir))

\* C19: collect_errors run again on the state it has just returned leaves
\* collected_errors and errors_by_file as they are.
C19_AggregatorIdempotent ==
    [][(node = "decide" /\ last = "collect_errors"
            /\ last' = "collect_errors_again") =>
            /\ collected_errors' = collected_errors
            /\ errors_by_file' = errors_by_file]_vars

\* collect_errors has run twice on results with failures in two categories.
C19_Witness ==
    /\ last = "collect_errors_again"
    /\ Cardinality({c \in Categories : Len(collected_errors[c]) > 0}) >= 2
    /\ DOMAIN errors_by_file # {}

\* C20: error_message is set only while status is failed, and a run that
\* ends through the release chain ends with error_message unset.
C20_ErrorMessageOnlyOnFailure ==
    /\ error_message # NoMessage => status = "failed"
    /\ (node = "END" /\ last = "release_terraform") => error_message = NoMessage

\* A run that went round the fix loop and ended through the release chain.
C20_Witness ==
    /\ node = "END"
    /\ last = "release_terraform"
    /\ fix_rounds >= 1
    /\ error_message = NoMessage

\* C21: a validator step writes validation_results of its own category and
\* nothing else, whichever validators of the fan-out ran before it; when the
\* validators have all returned, each one's complete result list is there.
C21_ValidatorIndependence ==
    /\ [][\A c \in Categories :
            (node = "validate" /\ c \in pending /\ pending' = pending \ {c}) =>
                /\ DOMAIN validation_results' = DOMAIN validation_results \cup {c}
                /\ \A k \in DOMAIN validation_results \ {c} :
                      validation_results'[k] = validation_results[k]
                /\ UNCHANGED <<files, all_validations_complete, collected_errors,
                               errors_by_file, fix_attempts, files_fixed,
                               fix_applied, release_ready, release_results,
                               docker_images_built, helm_charts_released,
                               terraform_applied, status, error_message>>]_vars
    /\ [](node = "collect_errors" =>
            \A c \in validated :
                /\ c \in DOMAIN validation_results
                /\ Len(validation_results[c])
                      = Len(ValidationUnits(c)) * Len(ToolsOf(c)))

\* The three validators ran on files of all three categories, terraform last.
C21_Witness ==
    /\ node = "collect_errors"
    /\ last = "validate_terraform"
    /\ validated = Categories
    /\ \A c \in Categories : Len(validation_results[c]) > 0

\* C22: a run started with max_fix_attempts = N, N being 3 when the argument
\* is not given, has max_attempts = N in all three categories during the
\* whole run and attempts = 0 before discovery.
C22_BudgetOverride ==
    LET N == IF args.max_fix_attempts = NotGiven
             THEN DefaultMaxFixAttempts ELSE args.max_fix_attempts[1]
    IN  \A c \in Categories :
            /\ fix_attempts[c].max_attempts = N
            /\ node = "discover" => fix_attempts[c].attempts = 0

\* A run with an explicit budget of one attempt used it up.
C22_Witness ==
    /\ node = "END"
    /\ args.max_fix_attempts = Given(1)
    /\ \E c \in Categories : fix_attempts[c].attempts = 1

\* C23: the run with --dry-run and the run without it, on the same files
\* with the same tool answers, take the same step from every state they
\* reach and are left in the same state by it: the same node ran and every
\* field of the workflow state, the clock, the writes and the exit code
\* agree.  By induction the two runs are the same sequence of steps,
\* through the release stages when errors are zero, with the same result.
C23_DryRunIgnored ==
    (twin.phase = "second" /\ RunState # twin.before) =>
        RunState = twin.after

\* Both runs have released with zero errors, built an image and exited.
C23_Witness ==
    /\ twin.phase = "second"
    /\ ~args.dry_run
    /\ RunState # twin.before
    /\ node = "exited"
    /\ exit_code = twin.after.exit_code
    /\ twin.after.node = "exited"
    /\ release_ready
    /\ Len(docker_images_built) > 0
    /\ Len(twin.after.docker_images_built) > 0

\* C24 as stated: after discovery no file is in two category lists, each
\* file is in the list of the first category it matches in the order
\* terraform, docker, helm, and no listed file has a directory in its path
\* whose name starts with '.' or equals node_modules.
C24_Classification ==
    node # "discover" =>
        /\ \A c1, c2 \in Categories :
              c1 # c2 => Range(files[c1]) \cap Range(files[c2]) = {}
        /\ \A f \in Range(files["terraform"]) : is_terraform_file(f)
        /\ \A f \in Range(files["docker"]) :
              is_docker_file(f) /\ ~is_terraform_file(f)
        /\ \A f \in Range(files["helm"]) :
              is_helm_file(f) /\ ~is_docker_file(f) /\ ~is_terraform_file(f)
        /\ \A c \in Categories : \A f \in Range(files[c]) :
              \A i \in 1..(Len(f) - 1) : ~IsExcludedDir(f[i])

\* C24 amended: the same, with the excluded directories being those below
\* a scanned root: the root itself may be hidden or be node_modules.
C24_ClassificationBelowRoot ==
    node # "discover" =>
        /\ \A c1, c2 \in Categories :
              c1 # c2 => Range(files[c1]) \cap Range(files[c2]) = {}
        /\ \A f \in Range(files["terraform"]) : is_terraform_file(f)
        /\ \A f \in Range(files["docker"]) :
              is_docker_file(f) /\ ~is_terraform_file(f)
        /\ \A f \in Range(files["helm"]) :
              is_helm_file(f) /\ ~is_docker_file(f) /\ ~is_terraform_file(f)
        /\ \A c \in Categories : \A f \in Range(files[c]) :
              /\ f \in Range(disk)
              /\ \A i \in 2..(Len(f) - 1) : ~IsExcludedDir(f[i])

\* A file matching all three categories was listed as terraform, and a file
\* below .git was left out.
C24_Witness ==
    /\ node = "validate"
    /\ <<"proj", "templates", "Dockerfile.tf">> \in Range(files["terraform"])
    /\ <<".", ".git", "main.tf">> \in Range(disk)
    /\ Len(files["terraform"]) = 1

\* C25: a validator step leaves in validation_results of its category
\* exactly one result per unit and tool of that run, in visit order, and
\* leaves the results of the other categories as they were.
C25_ResultsReplaced ==
    [][\A c \in Categories :
          (node = "validate" /\ c \in pending /\ pending' = pending \ {c}) =>
              LET units == ValidationUnits(c)
                  tools == ToolsOf(c)
                  new == validation_results'[c]
              IN  /\ Len(new) = Len(units) * Len(tools)
                  /\ \A i \in 1..Len(new) :
                        /\ new[i].file_path = units[((i - 1) \div Len(tools)) + 1]
                        /\ new[i].tool = tools[((i - 1) % Len(tools)) + 1]
                  /\ \A k \in DOMAIN validation_results \ {c} :
                        validation_results'[k] = validation_results[k]]_vars

\* Terraform failed in an earlier pass and its re-validation after a fix
\* round left only passing results.
C25_Witness ==
    /\ last = "validate_terraform"
    /\ fix_rounds >= 1
    /\ "terraform" \in ever_failed
    /\ Len(validation_results["terraform"]) > 0
    /\ \A i \in 1..Len(validation_results["terraform"]) :
          validation_results["terraform"][i].passed

\* C26: when collect_errors has run, each category has as many collected
\* errors as it has validation results with passed = false, the total is
\* zero exactly when every result passed, and all_validations_complete is
\* true.
C26_AggregationContent ==
    (node = "decide" /\ last = "collect_errors") =>
        LET Failed(c) ==
                IF c \in DOMAIN validation_results
                THEN {i \in 1..Len(validation_results[c]) :
                          ~validation_results[c][i].passed}
                ELSE {}
        IN  /\ all_validations_complete
            /\ \A c \in Categories :
                  Len(collected_errors[c]) = Cardinality(Failed(c))
            /\ total_errors(collected_errors) = 0
                  <=> \A c \in Categories : Failed(c) = {}

\* collect_errors has run on a category with two failed results.
C26_Witness ==
    /\ node = "decide"
    /\ last = "collect_errors"
    /\ \E c \in Categories : Len(collected_errors[c]) >= 2

\* C27: whenever decide_next_action is about to run, collect_errors has run
\* after every validator of the pass returned, and collected_errors is the
\* aggregation of the validation_results of that moment.
C27_FreshAggregates ==
    node \in {"decide", "route"} =>
        /\ pending = {}
        /\ all_validations_complete
        /\ last \in {"collect_errors", "decide"}
        /\ collected_errors = Collected(validation_results)

\* A decision after a fix round, with errors left.
C27_Witness ==
    /\ node = "decide"
    /\ fix_rounds >= 1
    /\ total_errors(collected_errors) > 0

\* C28: after prepare_release the stages release_docker, release_helm and
\* release_terraform run once each in that order whatever their results,
\* and a run that ends through them has a release result per category, with
\* status success, failed or skipped, skipped exactly for an empty file list.
C28_ReleaseStages ==
    /\ [][/\ node = "prepare_release" => node' = "release_docker"
          /\ node = "release_docker" =>
                /\ DOMAIN release_results = {}
                /\ DOMAIN release_results' = {"docker"}
                /\ node' = "release_helm"
          /\ node = "release_helm" =>
                /\ DOMAIN release_results = {"docker"}
                /\ DOMAIN release_results' = {"docker", "helm"}
                /\ node' = "release_terraform"
          /\ node = "release_terraform" =>
                /\ DOMAIN release_results = {"docker", "helm"}
                /\ DOMAIN release_results' = Categories
                /\ node' = "END"]_vars
    /\ []((node = "END" /\ last = "release_terraform") =>
            \A c \in Categories :
                /\ release_results[c].status \in {"success", "failed", "skipped"}
                /\ release_results[c].status = "skipped" <=> Len(files[c]) = 0)

\* The docker stage failed and the helm and terraform stages still ran.
C28_Witness ==
    /\ node = "END"
    /\ last = "release_terraform"
    /\ release_results["docker"].status = "failed"
    /\ release_results["helm"].status = "success"
    /\ release_results["terraform"].status = "skipped"

\* C29: a fixer step that consumes budget for a category appends exactly
\* that category's discovered file paths to files_fixed and sets
\* fix_applied, for fix_terraform as for fix_docker and fix_helm.
C29_FilesFixedLog ==
    [][\A c \in Categories :
          (/\ node = FixerNode(c)
           /\ fix_attempts'[c].attempts > fix_attempts[c].attempts) =>
              /\ files_fixed' = files_fixed \o files[c]
              /\ fix_applied']_vars

\* C30: rewriting once a Dockerfile that has one FROM line and neither a
\* WORKDIR nor a USER line gives one WORKDIR line, directly after FROM, one
\* USER line, directly before the first CMD or ENTRYPOINT line, and
\* otherwise the lines it had, in their order.
C30_DockerInsertions ==
    LET orig == file_text.original
        lines == file_text.lines
        Count(ls, instrs) ==
            Cardinality({i \in 1..Len(ls) : ls[i].instr \in instrs})
        Starts == {i \in 1..Len(lines) : lines[i].instr \in {"CMD", "ENTRYPOINT"}}
        Kept(l) == l.instr \notin {"WORKDIR", "USER"}
        Instrs(ls) == [i \in 1..Len(ls) |-> ls[i].instr]
    IN  (/\ file_text.applied = 1
         /\ Count(orig, {"WORKDIR", "USER"}) = 0
         /\ Count(orig, {"FROM"}) = 1) =>
            /\ Count(lines, {"WORKDIR"}) = 1
            /\ \A i \in 1..Len(lines) :
                  lines[i].instr = "FROM" =>
                      (i < Len(lines) /\ lines[i + 1].instr = "WORKDIR")
            /\ Count(lines, {"USER"}) = (IF Starts = {} THEN 0 ELSE 1)
            /\ \A i \in Starts :
                  (\A j \in Starts : i <= j) =>
                      (i > 1 /\ lines[i - 1].instr = "USER")
            /\ Instrs(SelectSeq(lines, Kept)) = Instrs(orig)

\* C31: a FROM line that fix_docker rewrites (its image is in the
\* substitution table and carries a tag other than latest) names, after one
\* rewrite of the file, exactly the pinned tag of the table and nothing of
\* the old tag.
C31_PinnedBaseImage ==
    LET IsFrom(l) == l.instr = "FROM"
        before == SelectSeq(file_text.original, IsFrom)
        after == SelectSeq(file_text.lines, IsFrom)
    IN  file_text.applied = 1 =>
            \A i \in 1..Len(before) :
                UpdateBaseImage(before[i]) # before[i] =>
                    /\ i <= Len(after)
                    /\ after[i].image = before[i].image
                    /\ after[i].tag = <<PinnedTag(before[i].image)>>

\* C32: one rewrite of a .tf file that has provider declarations and no
\* required_providers text inserts exactly one placeholder block, directly
\* before the first provider declaration, and keeps everything else; any
\* other file is written back unchanged.
C32_OnePlaceholder ==
    LET orig == file_text.original
        lines == file_text.lines
        Decls(ls) == {i \in 1..Len(ls) : ls[i] = ProviderDecl}
        Blocks == {i \in 1..Len(lines) : lines[i] = PlaceholderBlock}
        NotBlock(t) == t # PlaceholderBlock
    IN  file_text.applied = 1 =>
            IF Decls(orig) # {} /\ ~HasRequiredProviders(orig)
            THEN /\ Cardinality(Blocks) = 1
                 /\ \A i \in Blocks :
                       /\ i < Len(lines)
                       /\ lines[i + 1] = ProviderDecl
                       /\ \A j \in Decls(lines) : i < j
                 /\ SelectSeq(lines, NotBlock) = orig
            ELSE lines = orig

\* C33: once fix_helm has rewritten a Chart.yaml, the file contains
\* 'apiVersion:', 'name:' and 'version:'; what the file had is still there,
\* in one piece, with a default only for a field that was absent; and a
\* second rewrite leaves the content as the first left it.
C33_ChartFields ==
    [][LET orig == file_text.original
           after == file_text'.lines
           front == IF HasField(orig, "apiVersion:") THEN 0 ELSE 1
       IN  /\ file_text'.applied >= 1 =>
                /\ \A f \in {"apiVersion:", "name:", "version:"} : HasField(after, f)
                /\ SubSeq(after, front + 1, front + Len(orig)) = orig
                /\ \A f \in {"apiVersion:", "name:", "version:"} :
                      HasField(orig, f) =>
                          ~HasField(SubSeq(after, 1, front)
                                    \o SubSeq(after, front + Len(orig) + 1, Len(after)), f)
           /\ file_text.applied >= 1 => after = file_text.lines]_vars

\* C33 witness: a Chart.yaml that had a name and lacked the other two fields
\* has been rewritten twice.
C33_Witness ==
    /\ file_text.applied = 2
    /\ HasField(file_text.original, "name:")
    /\ ~HasField(file_text.original, "apiVersion:")
    /\ ~HasField(file_text.original, "version:")
    /\ Len(file_text.lines) = Len(file_text.original) + 2

\* C34: in a run started with max_fix_attempts = N the fixer chain is
\* entered at most N times, and whenever the decision is taken every
\* category that has files has used as many attempts as the chain has run.
C34_GlobalFixBound ==
    /\ fix_rounds <= EffectiveMaxFixAttempts(args.max_fix_attempts)
    /\ node \in {"decide", "route"} =>
          \A c \in Categories :
              Len(files[c]) > 0 => fix_attempts[c].attempts = fix_rounds

\* C34 witness: the decision is taken after two runs of the chain over a
\* tree with files of two categories, one of which never had an error.
C34_Witness ==
    /\ node = "decide"
    /\ fix_rounds = 2
    /\ \E c, d \in Categories :
          /\ c # d
          /\ Len(files[c]) > 0 /\ Len(files[d]) > 0
          /\ d \notin ever_failed
          /\ fix_attempts[c].attempts = 2 /\ fix_attempts[d].attempts = 2

\* C35: when prepare_release runs, no category has had files rewritten by a
\* fixer since its validator last produced its results.
C35_ReleaseOnValidatedContent ==
    node = "prepare_release" => unvalidated = {}

\* C36: at END terraform_applied is true only if the terraform release
\* stage recorded success.
C36_AppliedMeansSuccess ==
    (node \in {"END", "exited"} /\ terraform_applied) =>
        /\ "terraform" \in DOMAIN release_results
        /\ release_results["terraform"].status = "success"

\* C37: the docker (resp. helm) stage records failed only if some build
\* (package) failed, records success only if every build (package)
\* succeeded, and lists exactly the builds (packages) that succeeded.
C37_StageStatusReflectsTools ==
    [][/\ (node = "release_docker" /\ Len(files["docker"]) > 0) =>
             LET n == Len(files["docker"])
                 built == release_results'["docker"].images
             IN  /\ release_results'["docker"].status = "failed" => Len(built) < n
                 /\ release_results'["docker"].status = "success" => Len(built) = n
                 /\ docker_images_built' = built
                 /\ \A i \in 1..Len(built) :
                       \E f \in Range(files["docker"]) : built[i] = ImageTag(f, now)
       /\ (node = "release_helm" /\ Len(files["helm"]) > 0) =>
             LET n == Len(ChartDirOrder)
                 charts == release_results'["helm"].charts
             IN  /\ release_results'["helm"].status = "failed" => Len(charts) < n
                 /\ release_results'["helm"].status = "success" => Len(charts) = n
                 /\ helm_charts_released' = charts]_vars

\* C38: the router call of decide_next_action, made on the state the node
\* call left, returns the label the node call returned (the marks of that
\* label are already on the state) and changes none of status,
\* error_message and release_ready.
C38_DecisionRepeatable ==
    [][node = "route" =>
          LET label == decide_next_action(collected_errors, fix_attempts) IN
          /\ node' = RouteTarget(label)
          /\ label = "release" => release_ready
          /\ label = "fix" => status = "fixing"
          /\ label = "fail" =>
                /\ status = "failed"
                /\ error_message = FailureMessage(total_errors(collected_errors))
          /\ status' = status
          /\ error_message' = error_message
          /\ release_ready' = release_ready]_vars

\* C38 witness: both calls have returned fail and the message of the first
\* call stands.
C38_Witness ==
    /\ node = "fail"
    /\ last = "decide"
    /\ status = "failed"
    /\ error_message = FailureMessage(total_errors(collected_errors))
    /\ ~release_ready

\* C39: status changes only along running -> fixing, running -> releasing,
\* running -> failed, fixing -> releasing and fixing -> failed: it never
\* returns to running, never leaves failed, and never leaves releasing.
C39_StatusTransitions ==
    [][status' # status =>
          <<status, status'>> \in {<<"running", "fixing">>, <<"running", "releasing">>,
                                   <<"running", "failed">>, <<"fixing", "releasing">>,
                                   <<"fixing", "failed">>}]_vars

\* C39 witness: a run went from running over two fix cycles to releasing
\* and has ended.
C39_Witness ==
    /\ node = "END"
    /\ last = "release_terraform"
    /\ status = "releasing"
    /\ fix_rounds = 2

\* C40: rewriting a Dockerfile that fix_docker has already rewritten leaves
\* its content as the first rewrite left it.
C40_DockerRewriteIdempotent ==
    [][file_text.applied >= 1 => file_text'.lines = file_text.lines]_vars

====
